---- MODULE Spec2Model ----
(***************************************************************************)
(* Verification model of db-adapter:                                       *)
(*   - restore_database (src/db_adapter/backup/backup_restore.py)          *)
(*   - _topological_sort / generate_fix_plan ordering (schema/fix.py)      *)
(*   - apply_fixes (schema/fix.py)                                         *)
(* Each part has its own specification (SpecRestore, SpecSort, SpecFix);   *)
(* the variables of the other parts stay at their idle values.             *)
(***************************************************************************)
EXTENDS Integers, Sequences, FiniteSets, TLC

VARIABLES
    \* ---- restore_database ----
    mode,             \* "skip" | "overwrite" | "fail"
    dry_run,          \* BOOLEAN
    rpc,              \* which loop restore_database is in
    n,                \* rows of the snapshot read so far, per table
    db,               \* destination database: table -> set of rows
    nextId,           \* destination's primary-key sequence
    project_id_map,   \* old project id -> new id (None when absent)
    milestone_id_map, \* old milestone id -> new id (None when absent)
    summary,          \* table -> counter -> count
    last,             \* the snapshot row just processed and the adapter calls it caused
    hist,             \* the snapshot's recorded owner and the history of the run
    \* ---- _topological_sort ----
    dependencies, tables, spc, idx, stack, visited, visiting, sorted_tables,
    create_order, drop_order,
    \* ---- apply_fixes ----
    plan, args, fpc, todo, ddl, backup_paths, result,
    \* ---- generate_fix_plan ----
    validation_result,  \* missing_tables and missing_columns of the validation
    column_definitions, \* the "table.column" keys that have a definition
    schema_file,        \* whether the file exists, its CREATE TABLE blocks, their REFERENCES
    gpc,                \* which loop generate_fix_plan is in
    pending,            \* what the current loop has still to iterate over
    fixplan,            \* the FixPlan being built
    columns_by_table,   \* table -> missing columns, in insertion order
    fk_deps,            \* what _parse_fk_dependencies returned
    \* ---- validate_backup ----
    backup_data,        \* the backup file and what it holds
    validation,         \* the report validate_backup returned
    \* ---- backup_database ----
    live,               \* the database that is exported: table -> rows
    project_slugs,      \* the argument: None, or the slugs of the projects to export
    kpc,                \* which step backup_database is at
    exported,           \* backup_data as built so far
    output_file,        \* the snapshot written to output_path (<<>> while not written)
    \* ---- validate_schema ----
    actual_columns,     \* table -> columns the database has
    expected_columns,   \* table -> columns the caller expects
    cpc,                \* whether validate_schema has returned
    schema_result,      \* the SchemaValidationResult returned
    \* ---- compare_profiles / sync_data ----
    source_rows,        \* source database: table -> slugs of the user's rows, in order
    dest_rows,          \* destination database: table -> slugs of the user's rows
    sync_args,          \* tables, schema (given or not), dry_run, confirm
    ypc,                \* which step sync_data is at
    sync_result,        \* the SyncResult
    comparison,         \* what compare_profiles returned
    sync_calls,         \* the calls made so far that write to a database
    adapters,           \* profile -> "none" | "open" | "closed", per function
    tmpfile,            \* the temporary snapshot: "none" | "exists" | "deleted"
    sync_todo,          \* tables _sync_direct has still to process
    row_todo,           \* source rows of the current table still to process
    dest_slugs,         \* the destination's slugs of the current table
    \* ColumnFix.to_sql
    column_fix,         \* the ColumnFix: table, column, definition (a list of words)
    tpc,                \* "start" | "returned"
    statement,          \* the words of the statement to_sql returned
    \* AsyncSupabaseAdapter._get_client
    client,             \* self._client: {} for None, or {k} for the k-th client created
    lock,               \* self._lock: the coroutine that holds it; {} when free
    upc,                \* coroutine -> where it is in _get_client
    got,                \* coroutine -> what _get_client returned to it
    made                \* the clients acreate_client has returned, in order

rvars == <<mode, dry_run, rpc, n, db, nextId, project_id_map, milestone_id_map,
           summary, last, hist>>
svars == <<dependencies, tables, spc, idx, stack, visited, visiting, sorted_tables,
           create_order, drop_order>>
fvars == <<plan, args, fpc, todo, ddl, backup_paths, result>>
gvars == <<validation_result, column_definitions, schema_file, gpc, pending,
           fixplan, columns_by_table, fk_deps>>
bvars == <<backup_data, validation>>
kvars == <<live, project_slugs, kpc, exported, output_file>>
cvars == <<actual_columns, expected_columns, cpc, schema_result>>
yvars == <<source_rows, dest_rows, sync_args, ypc, sync_result, comparison, sync_calls,
           adapters, tmpfile, sync_todo, row_todo, dest_slugs>>
tvars == <<column_fix, tpc, statement>>
uvars == <<client, lock, upc, got, made>>
zvars == <<tvars, uvars>>
xvars == <<kvars, cvars, yvars, zvars>>
vars == <<rvars, svars, fvars, gvars, bvars, xvars>>

(***************************************************************************)
(* Bounds and domains                                                      *)
(***************************************************************************)
\* rows of the snapshot, over its three tables together
MaxRows == 3

\* length of the list of affected tables handed to _topological_sort
MaxLen == 3
\* foreign-key edges of the dependency graph
MaxEdges == 3
\* depth of the interpreter's call stack left to visit() (RecursionError beyond it)
StackLimit == 5
\* single-column fixes (ColumnFix) of a plan
MaxCols == 2
\* missing columns (ColumnDiff) of a validation result
MaxDiffs == 2
\* REFERENCES clauses of a schema file
MaxRefs == 1
\* rows of a table in a backup file given to validate_backup
MaxDocRows == 1

\* Python's None (a null column, a key absent from a dict)
None == 0
\* None where the value is otherwise a string (FixPlan.error, FixResult.backup_path)
NoneStr == "None"

RestoreTables == {"projects", "milestones", "tasks"}
Users == {"u1", "u2"}
\* get_dev_user_id(): the caller's current owner id
user_id == "u1"
Modes == {"skip", "overwrite", "fail"}
\* which adapter call of a row raises: none, the existence select, the insert/update
Faults == {"none", "select", "write"}
\* primary keys recorded in a snapshot table (the k-th row has key k and slug k)
OldIds == 1..MaxRows
\* keys the destination assigns on insert: its own sequence, apart from snapshot keys
NewId(c) == 500 + c

Range(s) == {s[i] : i \in DOMAIN s}

(***************************************************************************)
(* Destination rows that may exist before the restore                      *)
(***************************************************************************)
PreProject == [id |-> 101, slug |-> 1, user_id |-> user_id]
OtherOwnerProject == [id |-> 102, slug |-> 1, user_id |-> "u2"]
PreMilestone == [id |-> 201, slug |-> 1, user_id |-> user_id, project_id |-> 101]
PreTask == [id |-> 301, slug |-> 1, user_id |-> user_id, project_id |-> 101,
            milestone_id |-> None]

InitialDbs ==
    { [projects |-> ps, milestones |-> ms, tasks |-> ts] :
        ps \in SUBSET {PreProject, OtherOwnerProject},
        ms \in SUBSET {PreMilestone},
        ts \in SUBSET {PreTask} }

\* foreign keys of the destination hold before the restore starts
FkConsistent(d) ==
    /\ \A m \in d.milestones : \E p \in d.projects : p.id = m.project_id
    /\ \A t \in d.tasks : \E p \in d.projects : p.id = t.project_id

(***************************************************************************)
(* The adapter: select / insert / update on the destination                *)
(***************************************************************************)
Matches(row, filters) == \A k \in DOMAIN filters : row[k] = filters[k]

Select(table, filters) == {r \in db[table] : Matches(r, filters)}

SelectCall(table, filters) ==
    [op |-> "select", table |-> table, filters |-> filters, data |-> <<>>]
InsertCall(table, data) ==
    [op |-> "insert", table |-> table, filters |-> <<>>, data |-> data]
UpdateCall(table, data, filters) ==
    [op |-> "update", table |-> table, filters |-> filters, data |-> data]

\* the row the destination creates: the data under a key of its own sequence
Inserted(data) == [data EXCEPT !.id = NewId(nextId)]

\* the destination table after UPDATE ... SET data WHERE filters
Updated(table, data, filters) ==
    { IF Matches(r, filters)
        THEN [k \in DOMAIN r |-> IF k \in DOMAIN data THEN data[k] ELSE r[k]]
        ELSE r : r \in db[table] }

(***************************************************************************)
(* restore_database: what one snapshot row does to the destination         *)
(***************************************************************************)
TotalRows == n.projects + n.milestones + n.tasks

\* the loop over a table has another row: of a snapshot still being read, any row
\* within the bound; of a snapshot read before (a second restore), its next row
MoreRows(table) ==
    IF hist.run = 2 THEN n[table] < Len(hist.snapshot[table])
    ELSE TotalRows < MaxRows

\* the adapter failures a row can meet (the second restore meets none)
FaultsNow == IF hist.run = 2 THEN {"none"} ELSE Faults

\* keys a reference may hold when `rows` rows of the referenced table were read:
\* any key; when the snapshot is kept for a second restore, the keys of those rows
\* and one key of no row
RefsTo(rows) ==
    IF hist.keep THEN {k \in OldIds : k <= rows + 1} ELSE OldIds

\* the parent reference of the next row of a table
ProjectRefs(table) ==
    IF hist.run = 2 THEN {hist.snapshot[table][n[table] + 1].project_id}
    ELSE RefsTo(n.projects)

\* the optional reference of the next task
MilestoneRefs ==
    IF hist.run = 2 THEN {hist.snapshot.tasks[n.tasks + 1].milestone_id}
    ELSE {None} \cup RefsTo(n.milestones)

\* the outcome of one row: the counter it lands in, the adapter calls it made, the
\* table's rows afterwards, the key to record in the id map (None: nothing recorded),
\* the key of the destination row it matched, the key an insert returned and whether
\* an adapter call raised
Res(outcome, calls, rows, key, existing, returned, raised) ==
    [outcome |-> outcome, calls |-> calls, rows |-> rows, key |-> key,
     existing |-> existing, returned |-> returned, raised |-> raised]

\* a variant whose handler counts a row that raised in no counter
RowFailedUncounted(calls, rows) ==
    Res("none", calls, rows, None, None, None, TRUE)

\* a variant whose handler counts a row that raised as skipped
RowFailedCountedSkipped(calls, rows) ==
    Res("skipped", calls, rows, None, None, None, TRUE)

\* except Exception as e: summary[table]["failed"] += 1, for a row whose adapter call
\* raised before a key was recorded; the loop goes on with the next row
RowFailed(calls, rows) ==
    Res("failed", calls, rows, None, None, None, TRUE)

\* a variant that writes the owner the snapshot recorded
OwnerKept(row) == row

\* row["user_id"] = user_id
OwnerOverride(row) == [row EXCEPT !.user_id = user_id]

\* a variant that leaves the primary key in the update
UpdateDataKeepsKey(row) == row

\* update_data = {k: v for k, v in row.items() if k != "id"}
UpdateData(row) == [k \in (DOMAIN row) \ {"id"} |-> row[k]]

\* filters={"id": existing[0]["id"]}
UpdateFilters(e) == [id |-> e.id]

\* a variant that records nothing for a row that already exists
ExistingKeyForgotten(e) == None

\* the key recorded in the id map when the row already exists: existing[0]["id"]
ExistingKey(e) == e.id

\* if existing: ... (fail / skip / overwrite)
ExistingRow(table, row, e, fault, calls) ==
    IF mode = "fail"
      THEN \* raise ValueError(...): caught by the loop's own `except Exception`
           Res("failed", calls, db[table], ExistingKey(e), e.id, None, FALSE)
    ELSE IF mode = "skip"
      THEN Res("skipped", calls, db[table], ExistingKey(e), e.id, None, FALSE)
    ELSE IF dry_run
      THEN Res("updated", calls, db[table], ExistingKey(e), e.id, None, FALSE)
    ELSE LET data == UpdateData(row)
             filters == UpdateFilters(e)
             call == UpdateCall(table, data, filters)
         IN IF fault = "write" \/ Select(table, filters) = {}
              THEN Res("failed", calls \o <<call>>, db[table], ExistingKey(e), e.id, None,
                       TRUE)
              ELSE Res("updated", calls \o <<call>>, Updated(table, data, filters),
                       ExistingKey(e), e.id, None, FALSE)

\* a variant that inserts in a dry run too
NewRowWrittenInDryRun(table, row, fault, calls) ==
    IF fault = "write"
      THEN RowFailed(calls \o <<InsertCall(table, row)>>, db[table])
    ELSE Res("inserted", calls \o <<InsertCall(table, row)>>,
             db[table] \cup {Inserted(row)}, Inserted(row).id, None, Inserted(row).id,
             FALSE)

\* else: insert (or, in a dry run, map the old key to itself)
NewRow(table, row, fault, calls) ==
    IF dry_run
      THEN Res("inserted", calls, db[table], row.id, None, None, FALSE)
    ELSE IF fault = "write"
      THEN RowFailed(calls \o <<InsertCall(table, row)>>, db[table])
    ELSE Res("inserted", calls \o <<InsertCall(table, row)>>,
             db[table] \cup {Inserted(row)}, Inserted(row).id, None, Inserted(row).id,
             FALSE)

\* existing = adapter.select(table, columns="id", filters=...) and what follows;
\* existing[0] is any of the matching rows
ResolveRow(table, row, filters, fault, calls) ==
    LET sel == calls \o <<SelectCall(table, filters)>>
        existing == Select(table, filters)
    IN IF fault = "select"
         THEN {RowFailed(sel, db[table])}
       ELSE IF existing # {}
         THEN {ExistingRow(table, row, e, fault, sel) : e \in existing}
       ELSE {NewRow(table, row, fault, sel)}

\* a variant that never tests the map
ParentAssumed(old_project_id) == TRUE

\* old_project_id in project_id_map
ParentKnown(old_project_id) == project_id_map[old_project_id] # None

\* a variant that keeps the key recorded in the snapshot
KeepSnapshotProject(old_project_id) == old_project_id

\* row["project_id"] = project_id_map[old_project_id]
RemapProject(old_project_id) == project_id_map[old_project_id]

\* a variant that leaves an unresolvable optional reference as the snapshot has it
RemapMilestoneKeepsKey(old_milestone_id) ==
    IF old_milestone_id = None THEN None
    ELSE IF milestone_id_map[old_milestone_id] # None
      THEN milestone_id_map[old_milestone_id]
    ELSE old_milestone_id

\* the optional reference: remapped when its key is in milestone_id_map, else None
RemapMilestone(old_milestone_id) ==
    IF old_milestone_id = None THEN None
    ELSE IF milestone_id_map[old_milestone_id] # None
      THEN milestone_id_map[old_milestone_id]
    ELSE None

\* the counters, the position in the snapshot and the run's history after a row
Account(table, row0, r, parent) ==
    /\ summary' = [summary EXCEPT ![table][r.outcome] = @ + 1]
    /\ n' = [n EXCEPT ![table] = @ + 1]
    /\ nextId' = IF r.returned # None THEN nextId + 1 ELSE nextId
    /\ last' = [table |-> table, row |-> row0, calls |-> r.calls,
                outcome |-> r.outcome, existing |-> r.existing, raised |-> r.raised]
    /\ hist' = [hist EXCEPT
                  !.snapshot[table] = IF hist.keep /\ hist.run = 1
                                        THEN Append(@, row0) ELSE @,
                  !.faults = @ \/ r.raised,
                  !.orphans = @ \/ (parent # None /\ parent > n.projects),
                  !.collided = @ \/ (mode = "fail" /\ r.existing # None),
                  !.returned[table][row0.id] = r.returned,
                  !.matched[table][row0.id] = r.existing]

(***************************************************************************)
(* validate_backup                                                         *)
(***************************************************************************)
\* the top-level keys validate_backup requires
RequiredKeys == {"metadata", "projects", "tasks"}

\* the format version validate_backup expects
ExpectedVersion == "1.0"

\* metadata["version"]; NoneStr when the field is absent
Versions == {"1.0", "1.1", "2.0", NoneStr}

\* a key a row does not have
Absent == -1

\* rows of backup_data["projects"]: id absent, empty (None) or a key; slug absent or not
ProjectRows == [id : {Absent, None, 1, 2}, slug : {Absent, 1}]

\* rows of backup_data["tasks"]: project_id absent or a key
TaskRows == [project_id : {Absent, 1, 2}]

\* rows of backup_data["milestones"], which validate_backup does not read
MilestoneRows == [project_id : {1, 2}]

\* the top-level keys of a snapshot that backup_database writes
TopLevelKeys == RequiredKeys \cup {"milestones"}

\* lists of at most k elements of S
RECURSIVE RowLists(_, _)
RowLists(S, k) ==
    IF k = 0 THEN {<<>>}
    ELSE RowLists(S, k - 1)
           \cup {<<e>> \o rest : e \in S, rest \in {l \in RowLists(S, k - 1) : Len(l) = k - 1}}

\* backup files: missing, not JSON, or a JSON object
Documents ==
    {[file |-> f, keys |-> {}, version |-> NoneStr, projects |-> <<>>, tasks |-> <<>>] :
        f \in {"missing", "malformed"}}
    \cup [file : {"ok"}, keys : SUBSET RequiredKeys, version : Versions,
          projects : RowLists(ProjectRows, MaxDocRows),
          tasks : RowLists(TaskRows, MaxDocRows)]

\* backup files as validate_backup is given them: the milestones and their key, which
\* it does not look at, included
SnapshotFiles ==
    {[file |-> f, keys |-> {}, version |-> NoneStr, projects |-> <<>>,
      milestones |-> <<>>, tasks |-> <<>>] :
        f \in {"missing", "malformed"}}
    \cup [file : {"ok"}, keys : SUBSET TopLevelKeys, version : Versions,
          projects : RowLists(ProjectRows, MaxDocRows),
          milestones : RowLists(MilestoneRows, MaxDocRows),
          tasks : RowLists(TaskRows, MaxDocRows)]

\* a variant that takes no task for an orphan
IsOrphanNever(task, project_ids) == FALSE

\* elif task["project_id"] not in project_ids
IsOrphan(task, project_ids) == task.project_id \notin project_ids

Report(errors, warnings) ==
    [valid |-> errors = {}, errors |-> errors, warnings |-> warnings]

\* validate_backup(backup_path); errors and warnings as sets of messages
ValidateBackup(d) ==
    IF d.file = "missing" THEN Report({<<"Backup file not found">>}, {})
    ELSE IF d.file = "malformed" THEN Report({<<"Invalid JSON">>}, {})
    ELSE IF RequiredKeys \ d.keys # {}
      THEN Report({<<"Missing required key", k>> : k \in RequiredKeys \ d.keys}, {})
    ELSE
      LET project_ids ==
              {d.projects[i].id : i \in {i \in DOMAIN d.projects :
                                           d.projects[i].id \notin {Absent, None}}}
          errors ==
              {<<"Project missing 'id' field", i>> :
                  i \in {i \in DOMAIN d.projects : d.projects[i].id = Absent}}
              \cup {<<"Project has empty 'id'", i>> :
                  i \in {i \in DOMAIN d.projects : d.projects[i].id = None}}
              \cup {<<"Project missing 'slug' field", i>> :
                  i \in {i \in DOMAIN d.projects : d.projects[i].slug = Absent}}
              \cup {<<"Task missing 'project_id'", i>> :
                  i \in {i \in DOMAIN d.tasks : d.tasks[i].project_id = Absent}}
          warnings ==
              (IF d.version = NoneStr THEN {<<"Missing metadata field", "version">>}
               ELSE {})
              \cup (IF d.version # ExpectedVersion
                      THEN {<<"Backup version may not be compatible", d.version>>}
                    ELSE {})
              \cup {<<"Orphaned task", i>> :
                  i \in {i \in DOMAIN d.tasks :
                           /\ d.tasks[i].project_id # Absent
                           /\ IsOrphan(d.tasks[i], project_ids)}}
      IN Report(errors, warnings)


(***************************************************************************)
(* restore_database: the three loops                                       *)
(***************************************************************************)
\* a variant that goes on whatever the validation reports
NeverInvalid(report) == FALSE

\* if validation["errors"]:
Invalid(report) == report.errors # {}

\* json.load(open(backup_path)) raises for a missing or malformed file; then
\* validate_backup(backup_path): errors raise ValueError("Invalid backup file")
LoadAndValidate ==
    /\ rpc = "start"
    /\ \E d \in Documents :
         IF d.file # "ok"
           THEN /\ rpc' = "raised"
                /\ UNCHANGED hist
           ELSE /\ hist' = [hist EXCEPT !.errors = ValidateBackup(d).errors]
                /\ rpc' = IF Invalid(ValidateBackup(d)) THEN "raised" ELSE "projects"
    /\ UNCHANGED <<mode, dry_run, n, db, nextId, project_id_map, milestone_id_map,
                   summary, last, svars, fvars, gvars, bvars, xvars>>

\* for project in backup_data["projects"]
RestoreProject ==
    /\ rpc = "projects"
    /\ MoreRows("projects")
    /\ \E fault \in FaultsNow :
         LET k == n.projects + 1
             project0 == [id |-> k, slug |-> k, user_id |-> hist.owner]
             project == OwnerOverride(project0)
             filters == [user_id |-> user_id, slug |-> project.slug]
         IN \E r \in ResolveRow("projects", project, filters, fault, <<>>) :
              /\ db' = [db EXCEPT !.projects = r.rows]
              /\ project_id_map' = IF r.key # None
                                     THEN [project_id_map EXCEPT ![k] = r.key]
                                     ELSE project_id_map
              /\ Account("projects", project0, r, None)
    /\ UNCHANGED <<mode, dry_run, rpc, milestone_id_map, svars, fvars, gvars, bvars, xvars>>

\* for milestone in backup_data.get("milestones", [])
RestoreMilestone ==
    /\ rpc = "milestones"
    /\ MoreRows("milestones")
    /\ \E fault \in FaultsNow, old_project_id \in ProjectRefs("milestones") :
         LET k == n.milestones + 1
             milestone0 == [id |-> k, slug |-> k, user_id |-> hist.owner,
                            project_id |-> old_project_id]
             milestone == [OwnerOverride(milestone0) EXCEPT
                             !.project_id = RemapProject(old_project_id)]
             filters == [project_id |-> milestone.project_id, slug |-> milestone.slug]
             outcomes == IF ParentKnown(old_project_id)
                           THEN ResolveRow("milestones", milestone, filters, fault, <<>>)
                           ELSE {Res("skipped", <<>>, db.milestones, None, None, None, FALSE)}
         IN \E r \in outcomes :
              /\ db' = [db EXCEPT !.milestones = r.rows]
              /\ milestone_id_map' = IF r.key # None
                                       THEN [milestone_id_map EXCEPT ![k] = r.key]
                                       ELSE milestone_id_map
              /\ Account("milestones", milestone0, r, old_project_id)
    /\ UNCHANGED <<mode, dry_run, rpc, project_id_map, svars, fvars, gvars, bvars, xvars>>

\* for task in backup_data.get("tasks", [])
RestoreTask ==
    /\ rpc = "tasks"
    /\ MoreRows("tasks")
    /\ \E fault \in FaultsNow, old_project_id \in ProjectRefs("tasks"),
          old_milestone_id \in MilestoneRefs :
         LET k == n.tasks + 1
             task0 == [id |-> k, slug |-> k, user_id |-> hist.owner,
                       project_id |-> old_project_id, milestone_id |-> old_milestone_id]
             task == [OwnerOverride(task0) EXCEPT
                        !.project_id = RemapProject(old_project_id),
                        !.milestone_id = RemapMilestone(old_milestone_id)]
             parent_filters == [id |-> task.project_id]
             verify == IF dry_run THEN <<>> ELSE <<SelectCall("projects", parent_filters)>>
             project_exists == dry_run \/ Select("projects", parent_filters) # {}
             filters == [user_id |-> user_id, project_id |-> task.project_id,
                         slug |-> task.slug]
             outcomes == IF ~ParentKnown(old_project_id)
                           THEN {Res("skipped", <<>>, db.tasks, None, None, None, FALSE)}
                         ELSE IF ~project_exists
                           THEN {Res("skipped", verify, db.tasks, None, None, None, FALSE)}
                         ELSE ResolveRow("tasks", task, filters, fault, verify)
         IN \E r \in outcomes :
              /\ db' = [db EXCEPT !.tasks = r.rows]
              /\ Account("tasks", task0, r, old_project_id)
    /\ UNCHANGED <<mode, dry_run, rpc, project_id_map, milestone_id_map, svars, fvars, gvars, bvars, xvars>>

\* a variant whose tasks loop comes before its milestones loop
TasksLoopFirst(loop) ==
    CASE loop = "projects" -> "tasks"
      [] loop = "tasks" -> "milestones"
      [] OTHER -> "done"

\* the loops as the function has them: projects, milestones, tasks
LoopAfter(loop) ==
    CASE loop = "projects" -> "milestones"
      [] loop = "milestones" -> "tasks"
      [] OTHER -> "done"

\* the end of a table's rows: the next loop, and after the last one `return summary`
EndOfTable ==
    /\ rpc \in RestoreTables
    /\ hist.run = 2 => n[rpc] = Len(hist.snapshot[rpc])
    /\ rpc' = LoopAfter(rpc)
    /\ UNCHANGED <<mode, dry_run, n, db, nextId, project_id_map, milestone_id_map,
                   summary, last, hist, svars, fvars, gvars, bvars, xvars>>

ZeroCounts == [inserted |-> 0, updated |-> 0, skipped |-> 0, failed |-> 0]
NoKeys == [k \in OldIds |-> None]

\* the history of a run that has not read a row: the snapshot's recorded owner,
\* whether the destination is empty, whether the rows read are kept for a second
\* restore
NewHist(owner, empty, keep) ==
    [owner |-> owner, errors |-> {}, faults |-> FALSE, orphans |-> FALSE,
     collided |-> FALSE, empty |-> empty,
     returned |-> [t \in RestoreTables |-> NoKeys],
     matched |-> [t \in RestoreTables |-> NoKeys],
     keep |-> keep, run |-> 1, snapshot |-> [t \in RestoreTables |-> <<>>],
     first |-> <<>>]

NoRow ==
    [table |-> "none", row |-> <<>>, calls |-> <<>>, outcome |-> "none",
     existing |-> None, raised |-> FALSE]

RestoreIdle ==
    /\ mode = "skip" /\ dry_run = FALSE /\ rpc = "idle"
    /\ n = [t \in RestoreTables |-> 0]
    /\ db = [projects |-> {}, milestones |-> {}, tasks |-> {}]
    /\ nextId = 1
    /\ project_id_map = NoKeys /\ milestone_id_map = NoKeys
    /\ summary = [t \in RestoreTables |-> ZeroCounts]
    /\ last = [table |-> "none", row |-> <<>>, calls |-> <<>>, outcome |-> "none",
               existing |-> None, raised |-> FALSE]
    /\ hist = NewHist(user_id, TRUE, FALSE)

SortIdle ==
    /\ dependencies = <<>> /\ tables = <<>> /\ spc = "idle" /\ idx = 0
    /\ stack = <<>> /\ visited = {} /\ visiting = {} /\ sorted_tables = <<>>
    /\ create_order = <<>> /\ drop_order = <<>>

FixIdle ==
    /\ plan = <<>> /\ args = <<>> /\ fpc = "idle" /\ todo = <<>> /\ ddl = <<>>
    /\ backup_paths = <<>> /\ result = <<>>

ValidateIdle == backup_data = <<>> /\ validation = <<>>

ExportIdle ==
    /\ live = <<>> /\ project_slugs = <<>> /\ kpc = "idle"
    /\ exported = <<>> /\ output_file = <<>>

SchemaIdle ==
    /\ actual_columns = <<>> /\ expected_columns = <<>> /\ cpc = "idle"
    /\ schema_result = <<>>

SyncIdle ==
    /\ source_rows = <<>> /\ dest_rows = <<>> /\ sync_args = <<>> /\ ypc = "idle"
    /\ sync_result = <<>> /\ comparison = <<>> /\ sync_calls = <<>>
    /\ adapters = <<>> /\ tmpfile = "none" /\ sync_todo = <<>> /\ row_todo = <<>>
    /\ dest_slugs = {}

ToSqlIdle ==
    /\ column_fix = <<>> /\ tpc = "idle" /\ statement = <<>>

ClientIdle ==
    /\ client = {} /\ lock = {} /\ upc = <<>> /\ got = <<>> /\ made = <<>>

PlanIdle ==
    /\ validation_result = <<>> /\ column_definitions = {} /\ schema_file = <<>>
    /\ gpc = "idle" /\ pending = <<>> /\ fixplan = <<>> /\ columns_by_table = <<>>
    /\ fk_deps = <<>>

InitRestore ==
    /\ mode \in Modes
    /\ dry_run \in BOOLEAN
    /\ rpc = "start"
    /\ n = [t \in RestoreTables |-> 0]
    /\ db \in {d \in InitialDbs : FkConsistent(d)}
    /\ nextId = 1
    /\ project_id_map = NoKeys
    /\ milestone_id_map = NoKeys
    /\ summary = [t \in RestoreTables |-> ZeroCounts]
    /\ last = [table |-> "none", row |-> <<>>, calls |-> <<>>, outcome |-> "none",
               existing |-> None, raised |-> FALSE]
    /\ \E owner \in Users :
         hist = NewHist(owner, \A t \in RestoreTables : db[t] = {}, FALSE)
    /\ SortIdle /\ FixIdle /\ PlanIdle /\ ValidateIdle /\ ExportIdle /\ SchemaIdle /\ SyncIdle
    /\ ToSqlIdle /\ ClientIdle

NextRestore ==
    \/ LoadAndValidate
    \/ RestoreProject
    \/ RestoreMilestone
    \/ RestoreTask
    \/ EndOfTable

SpecRestore == InitRestore /\ [][NextRestore]_vars

\* restore_database(backup_path, mode="skip") called again with the same file, on
\* the destination the first call left
Rerun ==
    /\ rpc = "done" /\ hist.keep /\ hist.run = 1
    /\ mode' = "skip"
    /\ rpc' = "projects"
    /\ n' = [t \in RestoreTables |-> 0]
    /\ project_id_map' = NoKeys /\ milestone_id_map' = NoKeys
    /\ summary' = [t \in RestoreTables |-> ZeroCounts]
    /\ last' = NoRow
    /\ hist' = [hist EXCEPT
                  !.run = 2,
                  !.first = [returned |-> hist.returned, matched |-> hist.matched,
                             failed |-> \E t \in RestoreTables : summary[t].failed > 0],
                  !.returned = [t \in RestoreTables |-> NoKeys],
                  !.matched = [t \in RestoreTables |-> NoKeys],
                  !.faults = FALSE, !.collided = FALSE]
    /\ UNCHANGED <<dry_run, db, nextId, svars, fvars, gvars, bvars, xvars>>

InitRerun ==
    /\ mode \in Modes
    /\ dry_run = FALSE
    /\ rpc = "start"
    /\ n = [t \in RestoreTables |-> 0]
    /\ db \in {d \in InitialDbs : FkConsistent(d)}
    /\ nextId = 1
    /\ project_id_map = NoKeys
    /\ milestone_id_map = NoKeys
    /\ summary = [t \in RestoreTables |-> ZeroCounts]
    /\ last = NoRow
    /\ hist = NewHist("u2", \A t \in RestoreTables : db[t] = {}, TRUE)
    /\ SortIdle /\ FixIdle /\ PlanIdle /\ ValidateIdle /\ ExportIdle /\ SchemaIdle /\ SyncIdle
    /\ ToSqlIdle /\ ClientIdle

NextRerun ==
    \/ LoadAndValidate
    \/ RestoreProject
    \/ RestoreMilestone
    \/ RestoreTask
    \/ EndOfTable
    \/ Rerun

\* two calls of restore_database, the second with mode="skip"
SpecRerun == InitRerun /\ [][NextRerun]_vars

\* destination rows under keys that the snapshot records too: the snapshot was taken
\* of another owner's rows in this database
SourceProject == [id |-> 1, slug |-> 1, user_id |-> "u2"]
SourceMilestone == [id |-> 1, slug |-> 1, user_id |-> "u2", project_id |-> 1]

\* destinations of a restore that may hold the rows the snapshot was taken of
SharedDbs ==
    { [projects |-> d.projects \cup ps, milestones |-> d.milestones \cup ms,
       tasks |-> d.tasks] :
        d \in InitialDbs, ps \in SUBSET {SourceProject}, ms \in SUBSET {SourceMilestone} }

\* restore_database(backup_path, mode, dry_run=False) called after the dry run of the
\* same file and mode, on the destination the dry run left
RunForReal ==
    /\ rpc = "done" /\ hist.keep /\ hist.run = 1 /\ dry_run
    /\ dry_run' = FALSE
    /\ rpc' = "projects"
    /\ n' = [t \in RestoreTables |-> 0]
    /\ project_id_map' = NoKeys /\ milestone_id_map' = NoKeys
    /\ summary' = [t \in RestoreTables |-> ZeroCounts]
    /\ last' = NoRow
    /\ hist' = [hist EXCEPT
                  !.run = 2,
                  !.first = [summary |-> summary, faults |-> hist.faults, db |-> db],
                  !.returned = [t \in RestoreTables |-> NoKeys],
                  !.matched = [t \in RestoreTables |-> NoKeys],
                  !.faults = FALSE, !.collided = FALSE]
    /\ UNCHANGED <<mode, db, nextId, svars, fvars, gvars, bvars, xvars>>

InitDryRun ==
    /\ mode \in {"skip", "overwrite"}
    /\ dry_run = TRUE
    /\ rpc = "start"
    /\ n = [t \in RestoreTables |-> 0]
    /\ db \in {d \in SharedDbs : FkConsistent(d)}
    /\ nextId = 1
    /\ project_id_map = NoKeys
    /\ milestone_id_map = NoKeys
    /\ summary = [t \in RestoreTables |-> ZeroCounts]
    /\ last = NoRow
    /\ hist = NewHist("u2", \A t \in RestoreTables : db[t] = {}, TRUE)
    /\ SortIdle /\ FixIdle /\ PlanIdle /\ ValidateIdle /\ ExportIdle /\ SchemaIdle /\ SyncIdle
    /\ ToSqlIdle /\ ClientIdle

NextDryRun ==
    \/ LoadAndValidate
    \/ RestoreProject
    \/ RestoreMilestone
    \/ RestoreTask
    \/ EndOfTable
    \/ RunForReal

\* a dry run of restore_database and then the real run
SpecDryRun == InitDryRun /\ [][NextDryRun]_vars

\* validation = validate_backup(backup_path)
Validate ==
    /\ validation = <<>>
    /\ validation' = ValidateBackup(backup_data)
    /\ UNCHANGED <<backup_data, rvars, svars, fvars, gvars, xvars>>

InitValidate ==
    /\ backup_data \in SnapshotFiles
    /\ validation = <<>>
    /\ RestoreIdle /\ SortIdle /\ FixIdle /\ PlanIdle /\ ExportIdle /\ SchemaIdle /\ SyncIdle
    /\ ToSqlIdle /\ ClientIdle

NextValidate == Validate

SpecValidate == InitValidate /\ [][NextValidate]_vars

(***************************************************************************)
(* _topological_sort and the orders generate_fix_plan derives from it      *)
(***************************************************************************)
\* the tables of the schema file
FixTables == {"a", "b", "c"}

\* lists of at most k tables (a table may be listed twice)
RECURSIVE ListsUpTo(_)
ListsUpTo(k) ==
    IF k = 0 THEN {<<>>}
    ELSE LET shorter == ListsUpTo(k - 1)
         IN shorter \cup {Append(l, t) : l \in {x \in shorter : Len(x) = k - 1},
                                        t \in FixTables}

EdgeCount(g) == Cardinality({e \in FixTables \X FixTables : e[2] \in g[e[1]]})

\* dependency graphs: table -> set of tables it references
Graphs == {g \in [FixTables -> SUBSET FixTables] : EdgeCount(g) <= MaxEdges}

\* a variant that forgets the dependencies
RelevantNone(table) == {}

\* relevant[table] = dependencies.get(table, set()) & set(tables)
Relevant(table) == dependencies[table] \cap Range(tables)

\* a variant without the cycle check
NeverVisiting(table) == FALSE

\* if table in visiting: return
Visiting(table) == table \in visiting

\* if table in visited: return
Visited(table) == table \in visited

\* list(reversed(forward_order))
Reversed(seq) == [i \in 1..Len(seq) |-> seq[Len(seq) + 1 - i]]

\* visit(table), up to its loop over the dependencies: an early return, a
\* RecursionError when the stack is exhausted, or a new frame
Call(table) ==
    IF Visited(table) \/ Visiting(table)
      THEN UNCHANGED <<stack, visiting, spc>>
    ELSE IF Len(stack) >= StackLimit
      THEN /\ spc' = "raised"
           /\ UNCHANGED <<stack, visiting>>
    ELSE /\ stack' = Append(stack, [table |-> table, deps |-> Relevant(table)])
         /\ visiting' = visiting \cup {table}
         /\ UNCHANGED spc

\* for table in tables: visit(table)
VisitNext ==
    /\ spc = "loop" /\ stack = <<>> /\ idx <= Len(tables)
    /\ Call(tables[idx])
    /\ idx' = idx + 1
    /\ UNCHANGED <<dependencies, tables, visited, sorted_tables, create_order,
                   drop_order, rvars, fvars, gvars, bvars, xvars>>

\* for dep in relevant.get(table, set()): visit(dep) -- a set, iterated in any order
VisitDep ==
    /\ spc = "loop" /\ stack # <<>>
    /\ \E dep \in stack[Len(stack)].deps :
         LET top == stack[Len(stack)]
             rest == [stack EXCEPT ![Len(stack)].deps = top.deps \ {dep}]
         IN IF Visited(dep) \/ Visiting(dep)
              THEN /\ stack' = rest
                   /\ UNCHANGED <<visiting, spc>>
            ELSE IF Len(stack) >= StackLimit
              THEN /\ spc' = "raised"
                   /\ UNCHANGED <<stack, visiting>>
            ELSE /\ stack' = Append(rest, [table |-> dep, deps |-> Relevant(dep)])
                 /\ visiting' = visiting \cup {dep}
                 /\ UNCHANGED spc
    /\ UNCHANGED <<dependencies, tables, idx, visited, sorted_tables, create_order,
                   drop_order, rvars, fvars, gvars, bvars, xvars>>

\* visiting.discard(table); visited.add(table); sorted_tables.append(table)
VisitReturn ==
    /\ spc = "loop" /\ stack # <<>>
    /\ stack[Len(stack)].deps = {}
    /\ LET table == stack[Len(stack)].table
       IN /\ visiting' = visiting \ {table}
          /\ visited' = visited \cup {table}
          /\ sorted_tables' = Append(sorted_tables, table)
    /\ stack' = SubSeq(stack, 1, Len(stack) - 1)
    /\ UNCHANGED <<dependencies, tables, spc, idx, create_order, drop_order,
                   rvars, fvars, gvars, bvars, xvars>>

\* return sorted_tables; plan.create_order = forward_order;
\* plan.drop_order = list(reversed(forward_order))
PlanOrders ==
    /\ spc = "loop" /\ stack = <<>> /\ idx > Len(tables)
    /\ create_order' = sorted_tables
    /\ drop_order' = Reversed(sorted_tables)
    /\ spc' = "done"
    /\ UNCHANGED <<dependencies, tables, idx, stack, visited, visiting, sorted_tables,
                   rvars, fvars, gvars, bvars, xvars>>

InitSort ==
    /\ dependencies \in Graphs
    /\ tables \in ListsUpTo(MaxLen)
    /\ spc = "loop" /\ idx = 1
    /\ stack = <<>> /\ visited = {} /\ visiting = {} /\ sorted_tables = <<>>
    /\ create_order = <<>> /\ drop_order = <<>>
    /\ RestoreIdle /\ FixIdle /\ PlanIdle /\ ValidateIdle /\ ExportIdle /\ SchemaIdle /\ SyncIdle
    /\ ToSqlIdle /\ ClientIdle

NextSort ==
    \/ VisitNext
    \/ VisitDep
    \/ VisitReturn
    \/ PlanOrders

SpecSort == InitSort /\ [][NextSort]_vars

\* the sort runs to its end: nothing else is scheduled in the call
SpecSortFair == SpecSort /\ WF_vars(NextSort)

(***************************************************************************)
(* Claims about _topological_sort (checked under SpecSort / SpecSortFair)  *)
(***************************************************************************)
\* the tables reachable from S along dependency edges
RECURSIVE ReachableIn(_, _)
ReachableIn(S, k) ==
    IF k = 0 THEN S
    ELSE ReachableIn(S \cup UNION {dependencies[t] : t \in S}, k - 1)

Acyclic ==
    \A t \in FixTables :
        t \notin ReachableIn(dependencies[t], Cardinality(FixTables))

Positions(seq, t) == {i \in DOMAIN seq : seq[i] = t}

\* C9: for an acyclic dependency graph, create_order places every listed table
\* strictly after each of its dependencies that is listed too, and drop_order is
\* create_order read backwards.
C9_ParentsFirstAndDropIsReverse ==
    (spc = "done" /\ Acyclic) =>
        /\ \A t \in Range(tables) : \A d \in dependencies[t] \cap Range(tables) :
             /\ Positions(create_order, t) # {}
             /\ Positions(create_order, d) # {}
             /\ \A i \in Positions(create_order, t), j \in Positions(create_order, d) :
                  j < i
        /\ Len(drop_order) = Len(create_order)
        /\ \A i \in DOMAIN create_order :
             drop_order[i] = create_order[Len(create_order) + 1 - i]

\* C9 witness: a chain c -> b -> a listed child first has been sorted.
C9_Witness ==
    /\ spc = "done"
    /\ tables = <<"c", "b", "a">>
    /\ dependencies = [a |-> {}, b |-> {"a"}, c |-> {"b"}]
    /\ create_order = <<"a", "b", "c">>

\* C10: for any dependency graph, cycles included, the sort ends without raising,
\* and its result holds every requested table exactly once.
C10_TerminatesWithPermutation ==
    <>[](/\ spc = "done"
         /\ Range(create_order) = Range(tables)
         /\ \A t \in Range(tables) : Cardinality(Positions(create_order, t)) = 1)

\* C10 witness: a graph with a cycle a -> b -> a (and a self-reference) was sorted.
C10_Witness ==
    /\ spc = "done"
    /\ "b" \in dependencies["a"] /\ "a" \in dependencies["b"]
    /\ "c" \in dependencies["c"]
    /\ Range(tables) = FixTables


(***************************************************************************)
(* generate_fix_plan                                                       *)
(***************************************************************************)
Columns == {"x", "y"}

\* ColumnDiff(table, column)
ColumnDiffs(T) == [table : T, column : Columns]

\* duplicate-free lists of at most k elements of S
RECURSIVE ListsWithin(_, _)
ListsWithin(S, k) ==
    IF k = 0 THEN {<<>>}
    ELSE {<<>>} \cup UNION {{<<e>> \o rest : rest \in ListsWithin(S \ {e}, k - 1)} : e \in S}

\* what validate_schema reports: missing tables, and missing columns of tables that
\* are not missing, each once
ValidationResults ==
    UNION {{[missing_tables |-> m, missing_columns |-> c] :
              m \in {l \in ListsWithin(M, Cardinality(M)) : Len(l) = Cardinality(M)},
              c \in ListsWithin(ColumnDiffs(FixTables \ M), MaxDiffs)} :
           M \in SUBSET FixTables}

\* f"{col_diff.table}.{col_diff.column}"
Key(table, column) == <<table, column>>

AllKeys == {Key(t, c) : t \in FixTables, c \in Columns}

\* column_definitions: every key, or every key but one
ColumnDefinitions == {AllKeys} \cup {AllKeys \ {k} : k \in AllKeys}

NoDeps == [t \in FixTables |-> {}]

\* REFERENCES clauses: of tables that have a CREATE TABLE block, to other tables
\* (_parse_fk_dependencies skips self-references)
Refs(creates) ==
    {g \in [FixTables -> SUBSET FixTables] :
        /\ EdgeCount(g) <= MaxRefs
        /\ \A t \in FixTables : t \notin g[t] /\ (g[t] # {} => t \in creates)}

\* schema files: absent, or with a CREATE TABLE block for every table or every
\* table but one
SchemaFiles ==
    {[exists |-> FALSE, creates |-> {}, refs |-> NoDeps]}
        \cup UNION {{[exists |-> TRUE, creates |-> cs, refs |-> g] : g \in Refs(cs)} :
                    cs \in {FixTables} \cup {FixTables \ {t} : t \in FixTables}}

\* SchemaValidationResult.error_count
ErrorCount == Len(validation_result.missing_tables) + Len(validation_result.missing_columns)

\* _get_table_create_sql: the statement (here "sql"), or the exception raised
GetTableCreateSql(table) ==
    IF ~schema_file.exists THEN "FileNotFoundError"
    ELSE IF table \in schema_file.creates THEN "sql"
    ELSE "ValueError"

\* _parse_fk_dependencies
ParseFkDependencies == IF schema_file.exists THEN schema_file.refs ELSE NoDeps

\* a variant whose handler names ValueError only
CaughtValueErrorOnly(exc) == exc = "ValueError"

\* except (FileNotFoundError, ValueError) as e
Caught(exc) == exc \in {"FileNotFoundError", "ValueError"}

\* a variant that recreates only from three missing columns on
RecreateFromThree(columns) == Len(columns) >= 3

\* if len(columns) >= 2
NeedsRecreate(columns) == Len(columns) >= 2

TableFix(table, is_recreate) == [table |-> table, is_recreate |-> is_recreate]

\* columns_by_table[table].append(column) on a defaultdict(list)
Grouped(groups, table, column) ==
    IF \E i \in DOMAIN groups : groups[i].table = table
      THEN [i \in DOMAIN groups |->
              IF groups[i].table = table
                THEN [groups[i] EXCEPT !.columns = Append(@, column)]
                ELSE groups[i]]
      ELSE Append(groups, [table |-> table, columns |-> <<column>>])

\* [tf.table for tf in fixes]
TablesOf(fixes) == [i \in DOMAIN fixes |-> fixes[i].table]

\* the missing tables alone, without the tables to recreate
MissingTablesOnly == TablesOf(fixplan.missing_tables)

\* all_affected_tables
AllAffectedTables == TablesOf(fixplan.missing_tables) \o TablesOf(fixplan.tables_to_recreate)

\* plan.error = ...; return plan -- or the exception leaves generate_fix_plan
Fail(exc, message) ==
    IF Caught(exc)
      THEN /\ fixplan' = [fixplan EXCEPT !.error = message]
           /\ gpc' = "returned"
      ELSE /\ gpc' = "raised"
           /\ UNCHANGED fixplan

\* plan = FixPlan(); if validation_result.error_count == 0: return plan;
\* fk_deps = _parse_fk_dependencies(schema_file)
GenStart ==
    /\ gpc = "start"
    /\ IF ErrorCount = 0
         THEN /\ gpc' = "returned"
              /\ UNCHANGED <<fk_deps, pending>>
         ELSE /\ gpc' = "tables"
              /\ fk_deps' = ParseFkDependencies
              /\ pending' = validation_result.missing_tables
    /\ UNCHANGED <<validation_result, column_definitions, schema_file, fixplan,
                   columns_by_table, rvars, svars, fvars, bvars, xvars>>

\* for table in validation_result.missing_tables
GenMissingTable ==
    /\ gpc = "tables" /\ pending # <<>>
    /\ LET table == Head(pending)
           create_sql == GetTableCreateSql(table)
       IN IF create_sql = "sql"
            THEN /\ fixplan' = [fixplan EXCEPT !.missing_tables =
                                  Append(@, TableFix(table, FALSE))]
                 /\ pending' = Tail(pending)
                 /\ UNCHANGED gpc
            ELSE /\ Fail(create_sql, "CREATE TABLE not found")
                 /\ UNCHANGED pending
    /\ UNCHANGED <<validation_result, column_definitions, schema_file,
                   columns_by_table, fk_deps, rvars, svars, fvars, bvars, xvars>>

\* for col_diff in validation_result.missing_columns
GenGroupColumn ==
    /\ gpc = "columns" /\ pending # <<>>
    /\ LET col_diff == Head(pending)
       IN IF Key(col_diff.table, col_diff.column) \in column_definitions
            THEN /\ columns_by_table' =
                      Grouped(columns_by_table, col_diff.table, col_diff.column)
                 /\ pending' = Tail(pending)
                 /\ UNCHANGED <<gpc, fixplan>>
            ELSE /\ fixplan' = [fixplan EXCEPT !.error = "Unknown column definition"]
                 /\ gpc' = "returned"
                 /\ UNCHANGED <<pending, columns_by_table>>
    /\ UNCHANGED <<validation_result, column_definitions, schema_file, fk_deps,
                   rvars, svars, fvars, bvars, xvars>>

\* for table, columns in columns_by_table.items()
GenDecide ==
    /\ gpc = "decide" /\ pending # <<>>
    /\ LET table == Head(pending).table
           columns == Head(pending).columns
           create_sql == GetTableCreateSql(table)
       IN IF NeedsRecreate(columns)
            THEN IF create_sql = "sql"
                   THEN /\ fixplan' = [fixplan EXCEPT !.tables_to_recreate =
                                         Append(@, TableFix(table, TRUE))]
                        /\ pending' = Tail(pending)
                        /\ UNCHANGED gpc
                   ELSE /\ Fail(create_sql, "CREATE TABLE not found")
                        /\ UNCHANGED pending
            ELSE /\ fixplan' = [fixplan EXCEPT !.missing_columns =
                                  Append(@, [table |-> table, column |-> columns[1]])]
                 /\ pending' = Tail(pending)
                 /\ UNCHANGED gpc
    /\ UNCHANGED <<validation_result, column_definitions, schema_file,
                   columns_by_table, fk_deps, rvars, svars, fvars, bvars, xvars>>

\* a loop has run out: the next loop; after the last one _topological_sort is
\* called when a table is affected, else the plan is returned without orders
GenAdvance ==
    /\ gpc \in {"tables", "columns", "decide"} /\ pending = <<>>
    /\ gpc' = CASE gpc = "tables" -> "columns"
                [] gpc = "columns" -> "decide"
                [] OTHER -> IF AllAffectedTables # <<>> THEN "sorting" ELSE "returned"
    /\ pending' = CASE gpc = "tables" -> validation_result.missing_columns
                    [] gpc = "columns" -> columns_by_table
                    [] OTHER -> <<>>
    /\ IF gpc = "decide" /\ AllAffectedTables # <<>>
         THEN /\ dependencies' = fk_deps
              /\ tables' = AllAffectedTables
              /\ spc' = "loop"
              /\ idx' = 1
         ELSE UNCHANGED <<dependencies, tables, spc, idx>>
    /\ UNCHANGED <<validation_result, column_definitions, schema_file, fixplan,
                   columns_by_table, fk_deps, stack, visited, visiting, sorted_tables,
                   create_order, drop_order, rvars, fvars, bvars, xvars>>

\* return plan (the orders are in create_order and drop_order)
GenReturn ==
    /\ gpc = "sorting" /\ spc = "done"
    /\ gpc' = "returned"
    /\ UNCHANGED <<validation_result, column_definitions, schema_file, pending,
                   fixplan, columns_by_table, fk_deps, rvars, svars, fvars, bvars, xvars>>

NewPlan ==
    [missing_tables |-> <<>>, missing_columns |-> <<>>, tables_to_recreate |-> <<>>,
     error |-> NoneStr]

InitPlan ==
    /\ validation_result \in ValidationResults
    /\ column_definitions \in ColumnDefinitions
    /\ schema_file \in SchemaFiles
    /\ gpc = "start"
    /\ pending = <<>>
    /\ fixplan = NewPlan
    /\ columns_by_table = <<>>
    /\ fk_deps = NoDeps
    /\ RestoreIdle /\ SortIdle /\ FixIdle /\ ValidateIdle /\ ExportIdle /\ SchemaIdle /\ SyncIdle
    /\ ToSqlIdle /\ ClientIdle

NextPlan ==
    \/ GenStart
    \/ GenMissingTable
    \/ GenGroupColumn
    \/ GenDecide
    \/ GenAdvance
    \/ GenReturn
    \/ VisitNext
    \/ VisitDep
    \/ VisitReturn
    \/ PlanOrders

SpecPlan == InitPlan /\ [][NextPlan]_vars

(***************************************************************************)
(* apply_fixes                                                             *)
(***************************************************************************)
\* duplicate-free sequences over the set S
RECURSIVE Arrangements(_)
Arrangements(S) ==
    {<<>>} \cup UNION {{<<t>> \o rest : rest \in Arrangements(S \ {t})} : t \in S}

\* ColumnFix(table, column, definition), the i-th of a plan
ColumnFixes(k) == [i \in 1..k |-> [table |-> "d", column |-> i]]

\* plans: TableFix lists (by table name) for tables that are missing and tables to
\* recreate, ColumnFix list, the two orders (drop_order the reverse of create_order)
Plans ==
    { [missing_tables |-> m, tables_to_recreate |-> r, missing_columns |-> ColumnFixes(k),
       create_order |-> o, drop_order |-> Reversed(o), error |-> e] :
        m \in Arrangements(FixTables), r \in Arrangements(FixTables),
        k \in 0..MaxCols, o \in Arrangements(FixTables),
        e \in {NoneStr, "CREATE TABLE not found"} }

\* a table is missing or has missing columns, not both; orders name affected tables
PlanShape(p) ==
    /\ Range(p.missing_tables) \cap Range(p.tables_to_recreate) = {}
    /\ Range(p.create_order) \subseteq Range(p.missing_tables) \cup Range(p.tables_to_recreate)

Paths == {"p1", "p2"}
\* how an awaited call ends: it returns, or raises one of these
Outcomes == {"ok", "NotImplementedError", "RuntimeError", "Exception"}

\* FixPlan.has_fixes
HasFixes ==
    plan.missing_tables # <<>> \/ plan.missing_columns # <<>>
        \/ plan.tables_to_recreate # <<>>

\* a variant that executes in a dry run
DryRunIgnored == FALSE

\* if dry_run:
IsDryRun == args.dry_run

\* for tf in fixes: if tf.table not in ordered: ordered.append(tf.table)
RECURSIVE AppendAbsent(_, _)
AppendAbsent(ordered, fixes) ==
    IF fixes = <<>> THEN ordered
    ELSE AppendAbsent(IF Head(fixes) \in Range(ordered) THEN ordered
                      ELSE Append(ordered, Head(fixes)),
                      Tail(fixes))

\* [t for t in order if t in {tf.table for tf in fixes}]
Filtered(order, fixes) ==
    LET Listed(t) == t \in Range(fixes) IN SelectSeq(order, Listed)

\* tables_to_create
TablesToCreate ==
    AppendAbsent(Filtered(plan.create_order, plan.missing_tables), plan.missing_tables)

\* a variant that drops in create order (parents first)
TablesToDropParentsFirst ==
    AppendAbsent(Filtered(plan.create_order, plan.tables_to_recreate),
                 plan.tables_to_recreate)

\* tables_to_drop
TablesToDrop ==
    AppendAbsent(Filtered(plan.drop_order, plan.tables_to_recreate),
                 plan.tables_to_recreate)

\* tables_to_create_after_drop
TablesToCreateAfterDrop ==
    AppendAbsent(Filtered(plan.create_order, plan.tables_to_recreate),
                 plan.tables_to_recreate)

\* for table_name in tables_to_create_after_drop: if table_name in backup_paths
TablesToRestore ==
    LET BackedUp(t) == backup_paths[t] # NoneStr
    IN IF args.restore_fn THEN SelectSeq(TablesToCreateAfterDrop, BackedUp) ELSE <<>>

\* a variant that restores every table from the path the result reports
ReportedBackupPath(table) == result.backup_path

\* backup_paths[table_name]
RestorePath(table) == backup_paths[table]

\* a variant in which every backup overwrites result.backup_path
LatestBackupPath(current, path) == path

\* if result.backup_path is None: result.backup_path = backup_path
FirstBackupPath(current, path) == IF current = NoneStr THEN path ELSE current

Event(op, target, outcome, path) ==
    [op |-> op, target |-> target, outcome |-> outcome, path |-> path]

\* a variant without the inner handler: the adapter's exception leaves as it is
ExecuteRaisesAsIs(outcome) == outcome

\* try: await adapter.execute(...) except NotImplementedError: raise RuntimeError(...)
ExecuteRaises(outcome) ==
    IF outcome = "NotImplementedError" THEN "RuntimeError" ELSE outcome

\* how an exception ends apply_fixes: a RuntimeError (NotImplementedError is one) is
\* re-raised, anything else is wrapped into result.error and returned; result.raised
\* records the type of the exception that reaches the caller
Abort(exc) ==
    IF exc \in {"NotImplementedError", "RuntimeError"}
      THEN /\ fpc' = "raised"
           /\ result' = [result EXCEPT !.raised = exc]
      ELSE /\ fpc' = "returned"
           /\ result' = [result EXCEPT !.error = "Failed to apply fixes"]

NewResult ==
    [success |-> FALSE, backup_path |-> NoneStr, tables_created |-> 0,
     tables_recreated |-> 0, columns_added |-> 0, error |-> NoneStr,
     raised |-> NoneStr]

\* the four early returns, else the first loop
Gate ==
    /\ fpc = "start"
    /\ IF plan.error # NoneStr
         THEN /\ result' = [result EXCEPT !.error = plan.error]
              /\ fpc' = "returned"
              /\ UNCHANGED todo
       ELSE IF ~HasFixes
         THEN /\ result' = [result EXCEPT !.success = TRUE]
              /\ fpc' = "returned"
              /\ UNCHANGED todo
       ELSE IF IsDryRun
         THEN /\ result' = [result EXCEPT !.success = TRUE,
                              !.tables_created = Len(plan.missing_tables),
                              !.tables_recreated = Len(plan.tables_to_recreate),
                              !.columns_added = Len(plan.missing_columns)]
              /\ fpc' = "returned"
              /\ UNCHANGED todo
       ELSE IF ~args.confirm
         THEN /\ result' = [result EXCEPT !.error = "Fix requires confirm=True"]
              /\ fpc' = "returned"
              /\ UNCHANGED todo
       ELSE /\ fpc' = "create"
            /\ todo' = TablesToCreate
            /\ UNCHANGED result
    /\ UNCHANGED <<plan, args, ddl, backup_paths, rvars, svars, gvars, bvars, xvars>>

\* 1. for table_name in tables_to_create: await adapter.execute(table_fix.to_sql())
CreateMissing ==
    /\ fpc = "create" /\ todo # <<>>
    /\ \E outcome \in Outcomes :
         /\ ddl' = Append(ddl, Event("CREATE", Head(todo), outcome, NoneStr))
         /\ IF outcome = "ok"
              THEN /\ result' = [result EXCEPT !.tables_created = @ + 1]
                   /\ todo' = Tail(todo)
                   /\ UNCHANGED fpc
              ELSE /\ Abort(ExecuteRaises(outcome))
                   /\ UNCHANGED todo
    /\ UNCHANGED <<plan, args, backup_paths, rvars, svars, gvars, bvars, xvars>>

\* a variant that goes on to the DROP whatever backup_fn did
BackupFailureIgnored(backed) == FALSE

\* backup_path = await backup_fn(adapter, table_name) raises: the DROP below it is
\* not reached
BackupRaised(backed) == backed # "ok"

\* 2. for table_name in tables_to_drop: backup_fn (when supplied), then DROP TABLE
DropTable ==
    /\ fpc = "drop" /\ todo # <<>>
    /\ \E backed \in Outcomes, path \in Paths, outcome \in Outcomes :
         LET table == Head(todo)
             backup == Event("BACKUP", table, backed,
                             IF backed = "ok" THEN path ELSE NoneStr)
             drop == Event("DROP", table, outcome, NoneStr)
         IN IF args.backup_fn /\ BackupRaised(backed)
              THEN /\ ddl' = Append(ddl, backup)
                   /\ Abort(backed)
                   /\ UNCHANGED <<todo, backup_paths>>
            ELSE /\ ddl' = IF args.backup_fn THEN ddl \o <<backup, drop>>
                           ELSE Append(ddl, drop)
                 /\ backup_paths' = IF args.backup_fn
                                      THEN [backup_paths EXCEPT ![table] = path]
                                      ELSE backup_paths
                 /\ IF outcome = "ok"
                      THEN /\ result' = IF args.backup_fn
                                          THEN [result EXCEPT !.backup_path =
                                                  FirstBackupPath(@, path)]
                                          ELSE result
                           /\ todo' = Tail(todo)
                           /\ UNCHANGED fpc
                      ELSE /\ fpc' = IF ExecuteRaises(outcome) = "Exception"
                                        THEN "returned" ELSE "raised"
                           /\ result' = [result EXCEPT
                                !.backup_path = IF args.backup_fn
                                                  THEN FirstBackupPath(@, path) ELSE @,
                                !.error = IF ExecuteRaises(outcome) = "Exception"
                                            THEN "Failed to apply fixes" ELSE @,
                                !.raised = IF ExecuteRaises(outcome) = "Exception"
                                             THEN @ ELSE ExecuteRaises(outcome)]
                           /\ UNCHANGED todo
    /\ UNCHANGED <<plan, args, rvars, svars, gvars, bvars, xvars>>

\* for table_name in tables_to_create_after_drop: await adapter.execute(...)
Recreate ==
    /\ fpc = "recreate" /\ todo # <<>>
    /\ \E outcome \in Outcomes :
         /\ ddl' = Append(ddl, Event("CREATE", Head(todo), outcome, NoneStr))
         /\ IF outcome = "ok"
              THEN /\ result' = [result EXCEPT !.tables_recreated = @ + 1]
                   /\ todo' = Tail(todo)
                   /\ UNCHANGED fpc
              ELSE /\ Abort(ExecuteRaises(outcome))
                   /\ UNCHANGED todo
    /\ UNCHANGED <<plan, args, backup_paths, rvars, svars, gvars, bvars, xvars>>

\* if restore_fn is not None: ... await restore_fn(adapter, backup_paths[table_name])
Restore ==
    /\ fpc = "restore" /\ todo # <<>>
    /\ \E outcome \in Outcomes :
         /\ ddl' = Append(ddl, Event("RESTORE", Head(todo), outcome,
                                     RestorePath(Head(todo))))
         /\ IF outcome = "ok"
              THEN /\ todo' = Tail(todo)
                   /\ UNCHANGED <<fpc, result>>
              ELSE /\ Abort(outcome)
                   /\ UNCHANGED todo
    /\ UNCHANGED <<plan, args, backup_paths, rvars, svars, gvars, bvars, xvars>>

\* 3. for col_fix in plan.missing_columns: await adapter.execute(col_fix.to_sql())
Alter ==
    /\ fpc = "alter" /\ todo # <<>>
    /\ \E outcome \in Outcomes :
         /\ ddl' = Append(ddl, Event("ALTER", Head(todo), outcome, NoneStr))
         /\ IF outcome = "ok"
              THEN /\ result' = [result EXCEPT !.columns_added = @ + 1]
                   /\ todo' = Tail(todo)
                   /\ UNCHANGED fpc
              ELSE /\ Abort(ExecuteRaises(outcome))
                   /\ UNCHANGED todo
    /\ UNCHANGED <<plan, args, backup_paths, rvars, svars, gvars, bvars, xvars>>

\* a variant that does not look at what verify_fn returned
PassedAnyway(verified) == TRUE

\* if not verified: ... return result
Passed(verified) == verified

\* 4. if verify_fn is not None: verified = await verify_fn(adapter)
Verify ==
    /\ fpc = "verify" /\ todo # <<>>
    /\ \E outcome \in Outcomes, verified \in BOOLEAN :
         /\ ddl' = Append(ddl, Event("VERIFY", "db",
                                     IF outcome # "ok" THEN outcome
                                     ELSE IF verified THEN "True" ELSE "False",
                                     NoneStr))
         /\ IF outcome = "ok"
              THEN /\ todo' = Tail(todo)
                   /\ IF Passed(verified)
                        THEN UNCHANGED <<fpc, result>>
                        ELSE /\ fpc' = "returned"
                             /\ result' = [result EXCEPT !.error =
                                             "Fix applied but verification failed"]
              ELSE /\ Abort(outcome)
                   /\ UNCHANGED todo
    /\ UNCHANGED <<plan, args, backup_paths, rvars, svars, gvars, bvars, xvars>>

\* a loop has run out: the next loop, and after the last one result.success = True
Advance ==
    /\ fpc \in {"create", "drop", "recreate", "restore", "alter", "verify"}
    /\ todo = <<>>
    /\ fpc' = CASE fpc = "create" -> "drop"
                [] fpc = "drop" -> "recreate"
                [] fpc = "recreate" -> "restore"
                [] fpc = "restore" -> "alter"
                [] fpc = "alter" -> "verify"
                [] OTHER -> "returned"
    /\ todo' = CASE fpc = "create" -> TablesToDrop
                 [] fpc = "drop" -> TablesToCreateAfterDrop
                 [] fpc = "recreate" -> TablesToRestore
                 [] fpc = "restore" -> plan.missing_columns
                 [] fpc = "alter" -> IF args.verify_fn THEN <<"verify">> ELSE <<>>
                 [] OTHER -> <<>>
    /\ result' = IF fpc = "verify" THEN [result EXCEPT !.success = TRUE] ELSE result
    /\ UNCHANGED <<plan, args, ddl, backup_paths, rvars, svars, gvars, bvars, xvars>>

InitFix ==
    /\ plan \in {p \in Plans : PlanShape(p)}
    /\ args \in [backup_fn : BOOLEAN, restore_fn : BOOLEAN, verify_fn : BOOLEAN,
                 dry_run : BOOLEAN, confirm : BOOLEAN]
    /\ fpc = "start"
    /\ todo = <<>>
    /\ ddl = <<>>
    /\ backup_paths = [t \in FixTables |-> NoneStr]
    /\ result = NewResult
    /\ RestoreIdle /\ SortIdle /\ PlanIdle /\ ValidateIdle /\ ExportIdle /\ SchemaIdle /\ SyncIdle
    /\ ToSqlIdle /\ ClientIdle

NextFix ==
    \/ Gate
    \/ CreateMissing
    \/ DropTable
    \/ Recreate
    \/ Restore
    \/ Alter
    \/ Verify
    \/ Advance

SpecFix == InitFix /\ [][NextFix]_vars

\* plan = generate_fix_plan(...); result = await apply_fixes(adapter, plan, ...): the
\* plan that was returned is applied
ApplyPlan ==
    /\ gpc = "returned" /\ fpc = "idle"
    /\ plan' = [missing_tables |-> TablesOf(fixplan.missing_tables),
                tables_to_recreate |-> TablesOf(fixplan.tables_to_recreate),
                missing_columns |-> fixplan.missing_columns,
                create_order |-> create_order, drop_order |-> drop_order,
                error |-> fixplan.error]
    /\ args' \in [backup_fn : BOOLEAN, restore_fn : BOOLEAN, verify_fn : BOOLEAN,
                   dry_run : BOOLEAN, confirm : BOOLEAN]
    /\ fpc' = "start"
    /\ todo' = <<>>
    /\ ddl' = <<>>
    /\ backup_paths' = [t \in FixTables |-> NoneStr]
    /\ result' = NewResult
    /\ UNCHANGED <<rvars, svars, gvars, bvars, xvars>>

\* generate_fix_plan is given a schema file with every table's CREATE statement and
\* the definition of every column
InitHandOver ==
    /\ InitPlan
    /\ column_definitions = AllKeys
    /\ schema_file.exists /\ schema_file.creates = FixTables

NextHandOver ==
    \/ GenStart
    \/ GenMissingTable
    \/ GenGroupColumn
    \/ GenDecide
    \/ GenAdvance
    \/ GenReturn
    \/ VisitNext
    \/ VisitDep
    \/ VisitReturn
    \/ PlanOrders
    \/ ApplyPlan
    \/ Gate
    \/ CreateMissing
    \/ DropTable
    \/ Recreate
    \/ Restore
    \/ Alter
    \/ Verify
    \/ Advance

\* generate_fix_plan, and then apply_fixes on the plan it returned
SpecHandOver == InitHandOver /\ [][NextHandOver]_vars


(***************************************************************************)
(* Claims about generate_fix_plan (checked under SpecPlan)                 *)
(***************************************************************************)
\* the missing columns the validation reports for a table
MissingOf(t) ==
    {i \in DOMAIN validation_result.missing_columns :
        validation_result.missing_columns[i].table = t}

ColumnFixesOf(t) ==
    {i \in DOMAIN fixplan.missing_columns : fixplan.missing_columns[i].table = t}

RecreatesOf(t) ==
    {i \in DOMAIN fixplan.tables_to_recreate : fixplan.tables_to_recreate[i].table = t}

\* C11: in a plan returned without error, an existing table with exactly one missing
\* column has one ColumnFix (for that column) and no recreate entry, and an existing
\* table with two or more missing columns has one TableFix with is_recreate=True
\* and no ColumnFix.
C11_AlterForOneRecreateForMore ==
    (gpc = "returned" /\ fixplan.error = NoneStr /\ ErrorCount > 0) =>
        \A t \in FixTables :
            /\ Cardinality(MissingOf(t)) = 1 =>
                 /\ Cardinality(ColumnFixesOf(t)) = 1
                 /\ \A i \in ColumnFixesOf(t), j \in MissingOf(t) :
                      fixplan.missing_columns[i].column =
                          validation_result.missing_columns[j].column
                 /\ RecreatesOf(t) = {}
            /\ Cardinality(MissingOf(t)) >= 2 =>
                 /\ Cardinality(RecreatesOf(t)) = 1
                 /\ \A i \in RecreatesOf(t) : fixplan.tables_to_recreate[i].is_recreate
                 /\ ColumnFixesOf(t) = {}

\* C11 witness: a plan was returned without error for a table with two missing
\* columns, next to a missing table.
C11_Witness ==
    /\ gpc = "returned" /\ fixplan.error = NoneStr
    /\ \E t \in FixTables : Cardinality(MissingOf(t)) = 2
    /\ validation_result.missing_tables # <<>>
    /\ Len(fixplan.tables_to_recreate) = 1

\* the plan cannot be built: a missing table or a table with two or more missing
\* columns has no CREATE statement to be found, or a missing column has no definition
Unplannable ==
    \/ \E i \in DOMAIN validation_result.missing_tables :
          GetTableCreateSql(validation_result.missing_tables[i]) # "sql"
    \/ \E i \in DOMAIN validation_result.missing_columns :
          Key(validation_result.missing_columns[i].table,
              validation_result.missing_columns[i].column) \notin column_definitions
    \/ \E t \in FixTables :
          Cardinality(MissingOf(t)) >= 2 /\ GetTableCreateSql(t) # "sql"

\* C12: generate_fix_plan never raises; it returns a plan whose error is set exactly
\* when a missing column has no entry in column_definitions or a CREATE statement
\* that the plan needs cannot be found (schema file absent, or no block for the table).
C12_PlanErrorIsReturnedNotRaised ==
    /\ gpc # "raised"
    /\ gpc = "returned" => (fixplan.error # NoneStr <=> Unplannable)

\* C12 witness: with no schema file, the plan for a missing table was returned with
\* its error set.
C12_Witness ==
    /\ gpc = "returned" /\ fixplan.error # NoneStr
    /\ ~schema_file.exists /\ validation_result.missing_tables # <<>>

(***************************************************************************)
(* Claims about apply_fixes (checked under SpecFix)                        *)
(***************************************************************************)
\* plan.error unset, at least one fix, dry_run False and confirm True
Permitted ==
    /\ plan.error = NoneStr
    /\ plan.missing_tables # <<>> \/ plan.missing_columns # <<>>
         \/ plan.tables_to_recreate # <<>>
    /\ ~args.dry_run
    /\ args.confirm

\* C6: adapter.execute, backup_fn, restore_fn and verify_fn are called only when the
\* plan has no error and at least one fix, dry_run is False and confirm is True.
\* Otherwise apply_fixes returns with nothing called: success=False and an error for
\* a plan error and (the plan being sound and non-empty) for a run that is neither
\* dry nor confirmed; success=True for an empty plan and for a dry run.
C6_ExecutesOnlyWhenConfirmedAndNotDry ==
    /\ ddl # <<>> => Permitted
    /\ ~Permitted =>
         /\ fpc \in {"start", "returned"}
         /\ fpc = "returned" =>
              /\ result.success =
                   (plan.error = NoneStr /\ (~HasFixes \/ args.dry_run))
              /\ ~result.success => result.error # NoneStr
              /\ result.success => result.error = NoneStr

\* C6 witness: a dry run with confirm=True, every callback supplied and all three
\* kinds of fix has returned success with nothing called.
C6_Witness ==
    /\ fpc = "returned" /\ args.dry_run /\ args.confirm
    /\ args.backup_fn /\ args.restore_fn /\ args.verify_fn
    /\ plan.error = NoneStr
    /\ plan.missing_tables # <<>> /\ plan.tables_to_recreate # <<>>
    /\ plan.missing_columns # <<>>
    /\ ddl = <<>> /\ result.success

\* the phase of a DDL statement: 1 CREATE of a missing table, 2 DROP, 3 re-CREATE,
\* 4 ALTER; 0 for a callback
Phase(e) ==
    CASE e.op = "CREATE" /\ e.target \in Range(plan.missing_tables) -> 1
      [] e.op = "DROP" -> 2
      [] e.op = "CREATE" -> 3
      [] e.op = "ALTER" -> 4
      [] OTHER -> 0

\* what a phase has to issue
Required(p) ==
    CASE p = 1 -> Range(plan.missing_tables)
      [] p = 4 -> Range(plan.missing_columns)
      [] OTHER -> Range(plan.tables_to_recreate)

\* the targets of the phase-p statements among the first k calls
Issued(p, k) == {ddl[i].target : i \in {i \in 1..k : Phase(ddl[i]) = p}}

\* t may come before u under `order`: as the order has them when it lists both, and
\* a listed table comes before an unlisted one
Follows(order, t, u) ==
    /\ u \in Range(order) => t \in Range(order)
    /\ (t \in Range(order) /\ u \in Range(order)) =>
         \A i \in Positions(order, t), j \in Positions(order, u) : i < j

\* C7: the statements of a confirmed, non-dry run come in phases - CREATE of missing
\* tables, DROP of tables to recreate, re-CREATE, ALTER - and no phase starts before
\* the previous ones have issued all their statements; no statement is issued twice;
\* CREATEs and re-CREATEs follow plan.create_order and DROPs follow plan.drop_order,
\* tables the order does not list coming after the listed ones; a run that returns
\* success has issued every statement of the plan.
C7_PhasesAndOrders ==
    /\ \A j \in DOMAIN ddl : Phase(ddl[j]) # 0 =>
         /\ \A q \in 1..(Phase(ddl[j]) - 1) : Issued(q, j - 1) = Required(q)
         /\ \A i \in 1..(j - 1) : Phase(ddl[i]) # 0 =>
              /\ Phase(ddl[i]) <= Phase(ddl[j])
              /\ Phase(ddl[i]) = Phase(ddl[j]) =>
                   /\ ddl[i].target # ddl[j].target
                   /\ Phase(ddl[j]) \in {1, 3} =>
                        Follows(plan.create_order, ddl[i].target, ddl[j].target)
                   /\ Phase(ddl[j]) = 2 =>
                        Follows(plan.drop_order, ddl[i].target, ddl[j].target)
    /\ (fpc = "returned" /\ result.success /\ Permitted) =>
         \A q \in 1..4 : Issued(q, Len(ddl)) = Required(q)

\* C7 witness: a run has returned success for a plan with a missing table the order
\* does not list, two tables to recreate that the order lists the other way round
\* than the plan does, and a missing column.
C7_Witness ==
    /\ fpc = "returned" /\ result.success /\ Permitted
    /\ Len(plan.missing_tables) = 1 /\ Len(plan.tables_to_recreate) = 2
    /\ plan.create_order = Reversed(plan.tables_to_recreate)
    /\ plan.missing_columns # <<>>

\* C8: with backup_fn supplied, a DROP of a table is preceded by a backup_fn call
\* for that table that returned, and result.backup_path is what the first backup_fn
\* call returned (unset while there was none, or when it raised).
C8_BackupBeforeDropFirstPathWins ==
    LET Backups == {i \in DOMAIN ddl : ddl[i].op = "BACKUP"}
    IN /\ args.backup_fn =>
            \A j \in DOMAIN ddl : ddl[j].op = "DROP" =>
                \E i \in 1..(j - 1) :
                    /\ ddl[i].op = "BACKUP" /\ ddl[i].target = ddl[j].target
                    /\ ddl[i].outcome = "ok"
       /\ result.backup_path =
            IF Backups = {} THEN NoneStr
            ELSE ddl[CHOOSE i \in Backups : \A k \in Backups : i <= k].path

\* C8 witness: two tables were backed up to different paths and dropped, and the run
\* returned success.
C8_Witness ==
    /\ fpc = "returned" /\ result.success /\ args.backup_fn
    /\ \E i, j \in DOMAIN ddl :
         /\ i < j /\ ddl[i].op = "BACKUP" /\ ddl[j].op = "BACKUP"
         /\ ddl[i].path # ddl[j].path
         /\ result.backup_path = ddl[i].path

\* the path backup_fn returned for a table, among the first k calls
BackedUpTo(table, k) ==
    {ddl[i].path : i \in {i \in 1..k : /\ ddl[i].op = "BACKUP" /\ ddl[i].target = table
                                        /\ ddl[i].outcome = "ok"}}

C20_VerificationFailureIsReported ==
    /\ \A j \in DOMAIN ddl : ddl[j].op = "VERIFY" =>
         /\ args.verify_fn
         /\ \A q \in 1..4 : Issued(q, j - 1) = Required(q)
         /\ \A i \in 1..(j - 1) : ddl[i].outcome = "ok"
    /\ (ddl # <<>> /\ ddl[Len(ddl)].op = "VERIFY" /\ ddl[Len(ddl)].outcome = "False") =>
         /\ fpc = "returned"
         /\ ~result.success
         /\ result.error = "Fix applied but verification failed"
         /\ result.tables_created = Len(plan.missing_tables)
         /\ result.tables_recreated = Len(plan.tables_to_recreate)
         /\ result.columns_added = Len(plan.missing_columns)
    /\ (fpc # "idle" /\ result.error = "Fix applied but verification failed") =>
         /\ ddl # <<>>
         /\ ddl[Len(ddl)].op = "VERIFY" /\ ddl[Len(ddl)].outcome = "False"

\* C20 witness: a table was created, a table recreated and a column added, and then
\* verify_fn returned False.
C20_Witness ==
    /\ fpc = "returned" /\ ~result.success
    /\ result.tables_created > 0 /\ result.tables_recreated > 0
    /\ result.columns_added > 0
    /\ ddl[Len(ddl)].op = "VERIFY" /\ ddl[Len(ddl)].outcome = "False"

(***************************************************************************)
(* Claims about validate_backup (checked under SpecValidate)               *)
(***************************************************************************)
\* C14: validate_backup reports a snapshot valid only if its version is "1.1"; a
\* snapshot of version "1.0" is reported invalid, with an error about the version.
C14_OnlyVersion11IsValid ==
    validation # <<>> =>
        /\ validation.valid => backup_data.version = "1.1"
        /\ (backup_data.file = "ok" /\ RequiredKeys \subseteq backup_data.keys
               /\ backup_data.version = "1.0") =>
             /\ ~validation.valid
             /\ \E e \in validation.errors : e[1] = "Backup version may not be compatible"

(***************************************************************************)
(* Claims about restore_database (checked under SpecRestore)               *)
(***************************************************************************)
ChildTables == {"milestones", "tasks"}
WriteCalls(calls) == {i \in DOMAIN calls : calls[i].op \in {"insert", "update"}}
CallsOf(calls, op) == {i \in DOMAIN calls : calls[i].op = op}

C2_OrphanSkippedWithoutWrite ==
    [][\A t \in ChildTables :
         (rpc = t /\ n'[t] = n[t] + 1 /\ project_id_map[last'.row.project_id] = None) =>
            /\ last'.outcome = "skipped"
            /\ summary'[t].skipped = summary[t].skipped + 1
            /\ summary'[t].inserted = summary[t].inserted
            /\ summary'[t].updated = summary[t].updated
            /\ WriteCalls(last'.calls) = {}
            /\ db' = db]_vars

\* C2 witness: a milestone whose parent project is a row of the snapshot that failed
\* to restore has just been skipped.
C2_Witness ==
    /\ last.table = "milestones"
    /\ last.row.project_id <= n.projects
    /\ project_id_map[last.row.project_id] = None
    /\ last.outcome = "skipped"

\* C3: with mode=fail, once a snapshot row has matched an existing destination row
\* the call has raised to the caller (and so processes nothing further).
C3_FailModeRaisesToCaller ==
    (mode = "fail" /\ hist.collided) => rpc = "raised"

\* C4: with mode=skip, a snapshot row that matches an existing destination row
\* issues no insert and no update, is counted skipped, and has the existing key
\* recorded in its table's id map; a child of such a row is written with that
\* existing key in its reference column.
C4_SkipKeepsRowAndMapsExistingKey ==
    mode = "skip" =>
        /\ (last.table # "none" /\ last.existing # None) =>
             /\ last.outcome = "skipped"
             /\ WriteCalls(last.calls) = {}
             /\ last.table = "projects" => project_id_map[last.row.id] = last.existing
             /\ last.table = "milestones" => milestone_id_map[last.row.id] = last.existing
        /\ (last.table \in ChildTables
              /\ hist.matched.projects[last.row.project_id] # None) =>
             \A i \in WriteCalls(last.calls) :
                last.calls[i].data.project_id = hist.matched.projects[last.row.project_id]
        /\ (last.table = "tasks" /\ last.row.milestone_id # None
              /\ hist.matched.milestones[last.row.milestone_id] # None) =>
             \A i \in WriteCalls(last.calls) :
                last.calls[i].data.milestone_id
                  = hist.matched.milestones[last.row.milestone_id]

\* C4 witness: a milestone was inserted under a project that already existed in the
\* destination and was skipped.
C4_Witness ==
    /\ mode = "skip" /\ ~dry_run
    /\ last.table = "milestones" /\ last.outcome = "inserted"
    /\ hist.matched.projects[last.row.project_id] # None
    /\ summary.projects.skipped >= 1

\* C5: with mode=overwrite and no dry run, a snapshot row that matches an existing
\* destination row causes exactly one update call, on its own table, filtered on the
\* existing row's primary key, whose data has no primary-key column; no insert is
\* issued, and the row is counted updated (failed if that update call raises).
C5_OverwriteUpdatesOnceByExistingKey ==
    (mode = "overwrite" /\ ~dry_run /\ last.table # "none" /\ last.existing # None) =>
        /\ Cardinality(CallsOf(last.calls, "update")) = 1
        /\ CallsOf(last.calls, "insert") = {}
        /\ \A i \in CallsOf(last.calls, "update") :
             /\ last.calls[i].table = last.table
             /\ last.calls[i].filters = [id |-> last.existing]
             /\ "id" \notin DOMAIN last.calls[i].data
        /\ last.outcome = IF last.raised THEN "failed" ELSE "updated"

\* C5 witness: an existing task was overwritten.
C5_Witness ==
    /\ mode = "overwrite" /\ ~dry_run
    /\ last.table = "tasks" /\ last.existing # None /\ last.outcome = "updated"

\* C13: when validate_backup reports an error for the snapshot, restore_database
\* raises at once: no adapter call is made, the destination is left as it was and
\* no row is counted.
C13_InvalidSnapshotAbortsBeforeAnyWrite ==
    [][hist'.errors # {} =>
          /\ rpc' = "raised"
          /\ db' = db /\ nextId' = nextId
          /\ last'.table = "none" /\ last'.calls = <<>>
          /\ summary' = [t \in RestoreTables |-> ZeroCounts]]_vars

\* C13 witness: a restore in overwrite mode into a destination that holds rows has
\* raised on a validation error.
C13_Witness ==
    /\ rpc = "raised" /\ hist.errors # {}
    /\ mode = "overwrite" /\ ~dry_run /\ db.projects # {}

\* C15: a task whose parent project is known and whose optional milestone_id is set
\* is written with milestone_id rewritten to the key milestone_id_map has for it,
\* and with None when the map has none; in that case it is still inserted (or
\* updated, in overwrite mode), and it is counted skipped only because it matches an
\* existing row in skip mode.
C15_UnresolvableOptionalRefIsNulled ==
    (last.table = "tasks" /\ last.row.milestone_id # None
        /\ project_id_map[last.row.project_id] # None) =>
        LET new == milestone_id_map[last.row.milestone_id]
        IN /\ \A i \in WriteCalls(last.calls) : last.calls[i].data.milestone_id = new
           /\ new = None =>
                /\ last.outcome = "skipped" => (mode = "skip" /\ last.existing # None)
                /\ (~dry_run /\ ~last.raised /\ last.existing = None) =>
                     /\ last.outcome = "inserted"
                     /\ Cardinality(CallsOf(last.calls, "insert")) = 1
                /\ (~dry_run /\ ~last.raised /\ last.existing # None
                      /\ mode = "overwrite") =>
                     /\ last.outcome = "updated"
                     /\ Cardinality(CallsOf(last.calls, "update")) = 1

\* C15 witness: a task referencing a milestone that milestone_id_map does not have
\* has just been inserted.
C15_Witness ==
    /\ last.table = "tasks" /\ ~dry_run
    /\ last.row.milestone_id # None
    /\ milestone_id_map[last.row.milestone_id] = None
    /\ last.outcome = "inserted"
    /\ \E i \in CallsOf(last.calls, "insert") : last.calls[i].data.milestone_id = None

\* C16: the tables are processed parents first: once a milestone or a task has been
\* processed no project is processed and project_id_map no longer changes, and once
\* a task has been processed no milestone is processed and milestone_id_map no
\* longer changes.
C16_ParentsAreProcessedBeforeChildren ==
    [][/\ (n.milestones > 0 \/ n.tasks > 0) =>
            (n'.projects = n.projects /\ project_id_map' = project_id_map)
       /\ n.tasks > 0 =>
            (n'.milestones = n.milestones /\ milestone_id_map' = milestone_id_map)]_vars

\* C16 witness: after two projects, a task of the second project has been inserted
\* under the key the destination gave that project.
C16_Witness ==
    /\ n = [projects |-> 2, milestones |-> 0, tasks |-> 1]
    /\ \E i \in CallsOf(last.calls, "insert") :
         last.calls[i].data.project_id = project_id_map[2]
    /\ last.table = "tasks" /\ last.row.project_id = 2
    /\ last.outcome = "inserted" /\ ~dry_run

\* C17: with dry_run=True no row causes an insert or an update, in any mode, and the
\* destination stays as it is; a row that matches no destination row (its lookup
\* returned, and its parent is known if it has one) is counted inserted, and a
\* project or milestone so counted has its old key mapped to itself.
C17_DryRunWritesNothingAndMapsKeyToItself ==
    [][dry_run =>
          /\ db' = db /\ nextId' = nextId
          /\ WriteCalls(last'.calls) = {}
          /\ \A t \in RestoreTables :
               (rpc = t /\ n'[t] = n[t] + 1 /\ last'.existing = None /\ ~last'.raised
                  /\ (t \in ChildTables => project_id_map[last'.row.project_id] # None)) =>
                    /\ last'.outcome = "inserted"
                    /\ summary'[t].inserted = summary[t].inserted + 1
                    /\ t = "projects" => project_id_map'[last'.row.id] = last'.row.id
                    /\ t = "milestones" =>
                         milestone_id_map'[last'.row.id] = last'.row.id]_vars

\* C17 witness: a dry run in overwrite mode has counted a milestone inserted and
\* mapped its key to itself, next to a destination that holds rows.
C17_Witness ==
    /\ dry_run /\ mode = "overwrite" /\ db.projects # {}
    /\ last.table = "milestones" /\ last.outcome = "inserted"
    /\ milestone_id_map[last.row.id] = last.row.id

(***************************************************************************)
(* Claims about a second restore_database call (checked under SpecRerun)   *)
(***************************************************************************)
\* rows of a destination table that stand for the same record
Same(table, r, q) ==
    /\ r.slug = q.slug /\ r.user_id = q.user_id
    /\ table \in ChildTables => r.project_id = q.project_id

\* C18: a second restore of the same snapshot with mode=skip, no adapter call
\* failing, issues no update; after a first restore that counted no row failed it
\* issues no insert either, counts every row skipped and leaves the destination
\* unchanged; after a first restore with failures it inserts only rows that the
\* first restore neither inserted nor found in the destination, and the destination
\* never comes to hold a record twice.
C18_SecondRestoreWithSkipIsIdempotent ==
    [][(hist.run = 2 /\ hist'.run = 2) =>
          /\ CallsOf(last'.calls, "update") = {}
          /\ ~hist.first.failed => db' = db
          /\ \A t \in RestoreTables : \A r, q \in db'[t] : Same(t, r, q) => r = q
          /\ \A t \in RestoreTables :
               (rpc = t /\ n'[t] = n[t] + 1) =>
                    /\ ~hist.first.failed =>
                         /\ last'.outcome = "skipped"
                         /\ summary'[t].skipped = n'[t]
                         /\ WriteCalls(last'.calls) = {}
                    /\ CallsOf(last'.calls, "insert") # {} =>
                         /\ hist.first.returned[t][last'.row.id] = None
                         /\ hist.first.matched[t][last'.row.id] = None]_vars

\* C18 witness: a project, a milestone and a task were inserted into an empty
\* destination by the first restore, and the second restore has returned with all
\* three counted skipped.
C18_Witness ==
    /\ hist.run = 2 /\ rpc = "done" /\ hist.empty /\ ~hist.first.failed
    /\ n = [projects |-> 1, milestones |-> 1, tasks |-> 1]
    /\ \A t \in RestoreTables :
         hist.first.returned[t][1] # None /\ summary[t].skipped = 1

(***************************************************************************)
(* Claims about the failures of apply_fixes (checked under SpecFix)        *)
(***************************************************************************)
\* C21: when adapter.execute raises NotImplementedError at a CREATE, a DROP, a
\* re-CREATE or an ALTER, that statement is the last call apply_fixes makes and
\* RuntimeError reaches the caller: no FixResult is returned.
C21_UnsupportedDdlRaisesRuntimeError ==
    \A j \in DOMAIN ddl :
        (Phase(ddl[j]) # 0 /\ ddl[j].outcome = "NotImplementedError") =>
            /\ j = Len(ddl)
            /\ fpc = "raised"
            /\ result.raised = "RuntimeError"
            /\ ~result.success /\ result.error = NoneStr

\* C21 witness: after a CREATE of a missing table and a backup that both returned,
\* the DROP raised NotImplementedError and RuntimeError went to the caller.
C21_Witness ==
    /\ fpc = "raised" /\ result.raised = "RuntimeError"
    /\ Len(ddl) = 3
    /\ ddl[1].op = "CREATE" /\ ddl[1].outcome = "ok"
    /\ ddl[2].op = "BACKUP" /\ ddl[2].outcome = "ok"
    /\ ddl[3].op = "DROP" /\ ddl[3].outcome = "NotImplementedError"

\* a call has failed otherwise than by adapter.execute raising NotImplementedError
OtherFailure(e) ==
    /\ e.outcome \in Outcomes \ {"ok"}
    /\ ~(Phase(e) # 0 /\ e.outcome = "NotImplementedError")

\* C22: a call that fails otherwise than by adapter.execute raising
\* NotImplementedError - any other exception from adapter.execute, any exception
\* from a callback - is the last call apply_fixes makes, and apply_fixes returns
\* success=False with the wrapped error message instead of raising.
C22_OtherFailuresAreWrappedAndReturned ==
    \A j \in DOMAIN ddl : OtherFailure(ddl[j]) =>
        /\ j = Len(ddl)
        /\ fpc = "returned"
        /\ ~result.success
        /\ result.error = "Failed to apply fixes"
        /\ result.raised = NoneStr

(***************************************************************************)
(* Claims about row failures and the owner (checked under SpecRestore)     *)
(***************************************************************************)
\* C29: a row whose adapter call raises is counted in its table's failed count and
\* in no other, the loop stays where it is to go on with the next row, and no such
\* failure makes restore_database raise: it ends by returning the summary.
C29_RowFailureIsCountedAndRunGoesOn ==
    /\ [](rpc = "raised" => (~hist.faults /\ last.table = "none"))
    /\ [][(n' # n /\ last'.raised) =>
            /\ rpc' = rpc /\ rpc = last'.table
            /\ summary' = [summary EXCEPT ![last'.table].failed = @ + 1]
            /\ n' = [n EXCEPT ![last'.table] = @ + 1]]_vars

\* C29 witness: the insert of the first project raised, the second project and a
\* task of it were inserted afterwards, and restore_database returned.
C29_Witness ==
    /\ rpc = "done" /\ mode # "fail" /\ hist.faults
    /\ summary.projects.failed = 1 /\ summary.projects.inserted = 1
    /\ hist.returned.projects[1] = None /\ hist.returned.projects[2] # None
    /\ last.table = "tasks" /\ last.outcome = "inserted"
    /\ summary.tasks.inserted = 1

\* C30: every insert and every update restore_database issues carries the caller's
\* user id in user_id, whichever owner the snapshot recorded.
C30_WritesCarryCurrentOwner ==
    \A i \in WriteCalls(last.calls) : last.calls[i].data.user_id = user_id

\* C30 witness: a snapshot recorded by another user is restored in overwrite mode and
\* a milestone of it has been updated.
C30_Witness ==
    /\ hist.owner # user_id
    /\ last.table = "milestones" /\ last.outcome = "updated"
    /\ \E i \in CallsOf(last.calls, "update") : last.calls[i].data.user_id = user_id

(***************************************************************************)
(* backup_database                                                         *)
(***************************************************************************)
\* rows of a child table (milestones, tasks) of the exported database
MaxLiveRows == 1

\* the projects the exported database may hold: two of the caller, one of another user
LiveProjects ==
    {[id |-> 1, slug |-> 1, user_id |-> "u1"], [id |-> 2, slug |-> 2, user_id |-> "u1"],
     [id |-> 3, slug |-> 1, user_id |-> "u2"]}

\* keys a child row may hold in project_id (the project need not be there any more)
ParentKeys == 1..3

LiveMilestones == [id : 1..MaxLiveRows, user_id : Users, project_id : ParentKeys]

LiveTasks ==
    [id : 1..MaxLiveRows, user_id : Users, project_id : ParentKeys,
     milestone_id : {None, 1}]

\* the contents of a child table: rows with the keys 1..c
ChildSets(Rows) ==
    UNION {{{f[i] : i \in 1..c} : f \in {g \in [1..c -> Rows] : \A i \in 1..c : g[i].id = i}} :
             c \in 0..MaxLiveRows}

\* the project_slugs argument; None and the empty list take the same branches
\* (`if project_slugs`)
SlugArgs == {<<>>, <<1>>, <<2, 1>>, <<1, 1>>, <<3>>}

\* the list adapter.select returns for a set of rows: by key
RECURSIVE ById(_)
ById(S) ==
    IF S = {} THEN <<>>
    ELSE LET r == CHOOSE r \in S : \A q \in S : r.id <= q.id
         IN <<r>> \o ById(S \ {r})

\* adapter.select(table, columns="*", filters=filters) on the exported database
LiveSelect(table, filters) == ById({r \in live[table] : Matches(r, filters)})

\* for slug in project_slugs: result = adapter.select(...); if result: append(result[0])
RECURSIVE SelectedProjects(_)
SelectedProjects(slugs) ==
    IF slugs = <<>> THEN <<>>
    ELSE LET found == LiveSelect("projects", [user_id |-> user_id, slug |-> Head(slugs)])
         IN (IF found # <<>> THEN <<found[1]>> ELSE <<>>)
              \o SelectedProjects(Tail(slugs))

\* project_ids = [p["id"] for p in backup_data["projects"]]
ProjectIds == [i \in DOMAIN exported.projects |-> exported.projects[i].id]

\* a variant that exports every child row of the caller
AnyProject(row, project_ids) == TRUE

\* m["project_id"] in project_ids
InProjectIds(row, project_ids) == row.project_id \in Range(project_ids)

\* [m for m in all_rows if m["project_id"] in project_ids]
ChildrenOf(all_rows, project_ids) ==
    LET Kept(row) == InProjectIds(row, project_ids)
    IN SelectSeq(all_rows, Kept)

\* backup_data as backup_database prepares it
NewBackupData ==
    [metadata |-> [user_id |-> user_id, version |-> "1.1",
                   backup_type |-> IF project_slugs # <<>> THEN "selective" ELSE "full",
                   project_count |-> 0, milestone_count |-> 0, task_count |-> 0],
     projects |-> <<>>, milestones |-> <<>>, tasks |-> <<>>]

\* Export projects: the selected ones, or all projects of the user; adapter.select
\* may raise, and backup_database has no handler
ExportProjects ==
    /\ kpc = "projects"
    /\ \E fault \in {"none", "select"} :
         IF fault = "select"
           THEN /\ kpc' = "raised"
                /\ UNCHANGED exported
           ELSE LET projects == IF project_slugs # <<>>
                                  THEN SelectedProjects(project_slugs)
                                  ELSE LiveSelect("projects", [user_id |-> user_id])
                IN /\ exported' = [exported EXCEPT
                                     !.projects = projects,
                                     !.metadata.project_count = Len(projects)]
                   /\ kpc' = "milestones"
    /\ UNCHANGED <<live, project_slugs, output_file, rvars, svars, fvars, gvars, bvars, zvars,
                   cvars, yvars>>

\* if project_ids: export the milestones of these projects
ExportMilestones ==
    /\ kpc = "milestones"
    /\ \E fault \in {"none", "select"} :
         IF ProjectIds = <<>>
           THEN /\ kpc' = "write"
                /\ UNCHANGED exported
         ELSE IF fault = "select"
           THEN /\ kpc' = "raised"
                /\ UNCHANGED exported
         ELSE LET all_milestones == LiveSelect("milestones", [user_id |-> user_id])
                  milestones == ChildrenOf(all_milestones, ProjectIds)
              IN /\ exported' = [exported EXCEPT
                                   !.milestones = milestones,
                                   !.metadata.milestone_count = Len(milestones)]
                 /\ kpc' = "tasks"
    /\ UNCHANGED <<live, project_slugs, output_file, rvars, svars, fvars, gvars, bvars, zvars,
                   cvars, yvars>>

\* ... and the tasks of these projects
ExportTasks ==
    /\ kpc = "tasks"
    /\ \E fault \in {"none", "select"} :
         IF fault = "select"
           THEN /\ kpc' = "raised"
                /\ UNCHANGED exported
           ELSE LET all_tasks == LiveSelect("tasks", [user_id |-> user_id])
                    tasks == ChildrenOf(all_tasks, ProjectIds)
                IN /\ exported' = [exported EXCEPT
                                     !.tasks = tasks,
                                     !.metadata.task_count = Len(tasks)]
                   /\ kpc' = "write"
    /\ UNCHANGED <<live, project_slugs, output_file, rvars, svars, fvars, gvars, bvars, zvars,
                   cvars, yvars>>

\* json.dump(backup_data, f, ...); return output_path
WriteSnapshot ==
    /\ kpc = "write"
    /\ output_file' = exported
    /\ kpc' = "returned"
    /\ UNCHANGED <<live, project_slugs, exported, rvars, svars, fvars, gvars, bvars, zvars,
                   cvars, yvars>>

InitExport ==
    /\ live \in [projects : SUBSET LiveProjects, milestones : ChildSets(LiveMilestones),
                 tasks : ChildSets(LiveTasks)]
    /\ project_slugs \in SlugArgs
    /\ kpc = "projects"
    /\ exported = NewBackupData
    /\ output_file = <<>>
    /\ RestoreIdle /\ SortIdle /\ FixIdle /\ PlanIdle /\ ValidateIdle
    /\ SchemaIdle /\ SyncIdle
    /\ ToSqlIdle /\ ClientIdle

NextExport ==
    \/ ExportProjects
    \/ ExportMilestones
    \/ ExportTasks
    \/ WriteSnapshot

SpecExport == InitExport /\ [][NextExport]_vars

(***************************************************************************)
(* Claims about backup_database (checked under SpecExport)                 *)
(***************************************************************************)
\* C23: in the snapshot backup_database writes, the project_id of every milestone
\* and of every task is the id of a project of the same snapshot.
C23_SnapshotChildrenReferenceSnapshotParents ==
    kpc = "returned" =>
        \A t \in ChildTables : \A i \in DOMAIN output_file[t] :
            \E j \in DOMAIN output_file.projects :
                output_file.projects[j].id = output_file[t][i].project_id

\* C23 witness: of the caller's two projects only the first was asked for; the
\* caller's milestone belongs to the second project and is left out, the caller's
\* task belongs to the first and is in the snapshot.
C23_Witness ==
    /\ kpc = "returned" /\ project_slugs = <<1>>
    /\ \E m \in live.milestones : m.user_id = user_id /\ m.project_id = 2
    /\ \E p \in live.projects : p.id = 2 /\ p.user_id = user_id
    /\ output_file.milestones = <<>>
    /\ Len(output_file.projects) = 1 /\ Len(output_file.tasks) = 1

(***************************************************************************)
(* validate_schema                                                         *)
(***************************************************************************)
SchemaTables == {"a", "b"}

\* the names in the order sorted() gives them
Alphabet == <<"a", "b", "c", "x", "y">>

\* sorted(S)
Sorted(S) ==
    LET Member(e) == e \in S
    IN SelectSeq(Alphabet, Member)

\* dict[str, set[str]]: some of the tables, each with some of the columns
ColumnDicts == UNION {[T -> SUBSET Columns] : T \in SUBSET SchemaTables}

\* for col_name in sorted(missing_cols): missing_columns.append(ColumnDiff(...))
DiffsOf(table_name, actual, expected) ==
    LET missing_cols == expected[table_name] \ actual[table_name]
        cols == Sorted(missing_cols)
    IN [i \in DOMAIN cols |-> [table |-> table_name, column |-> cols[i]]]

\* for table_name in sorted(common_tables): ...
RECURSIVE MissingColumns(_, _, _)
MissingColumns(table_names, actual, expected) ==
    IF table_names = <<>> THEN <<>>
    ELSE DiffsOf(Head(table_names), actual, expected)
           \o MissingColumns(Tail(table_names), actual, expected)

\* a variant that looks at the tables only
IsValidTablesOnly(missing_tables, missing_columns) == Len(missing_tables) = 0

\* is_valid = len(missing_tables) == 0 and len(missing_columns) == 0
IsValid(missing_tables, missing_columns) ==
    Len(missing_tables) = 0 /\ Len(missing_columns) = 0

\* validate_schema(actual_columns, expected_columns)
ValidateSchema(actual, expected) ==
    LET actual_tables == DOMAIN actual
        expected_tables == DOMAIN expected
        missing_tables == Sorted(expected_tables \ actual_tables)
        extra_tables == Sorted(actual_tables \ expected_tables)
        common_tables == expected_tables \cap actual_tables
        missing_columns == MissingColumns(Sorted(common_tables), actual, expected)
    IN [valid |-> IsValid(missing_tables, missing_columns),
        missing_tables |-> missing_tables,
        missing_columns |-> missing_columns,
        extra_tables |-> extra_tables]

\* result = validate_schema(actual_columns, expected_columns)
CallValidateSchema ==
    /\ cpc = "start"
    /\ schema_result' = ValidateSchema(actual_columns, expected_columns)
    /\ cpc' = "returned"
    /\ UNCHANGED <<actual_columns, expected_columns, rvars, svars, fvars, gvars, bvars, zvars,
                   kvars, yvars>>

InitSchema ==
    /\ actual_columns \in ColumnDicts
    /\ expected_columns \in ColumnDicts
    /\ cpc = "start"
    /\ schema_result = <<>>
    /\ RestoreIdle /\ SortIdle /\ FixIdle /\ PlanIdle /\ ValidateIdle
    /\ ExportIdle /\ SyncIdle
    /\ ToSqlIdle /\ ClientIdle

NextSchema == CallValidateSchema

SpecSchema == InitSchema /\ [][NextSchema]_vars

(***************************************************************************)
(* Claims about validate_schema (checked under SpecSchema)                 *)
(***************************************************************************)
\* the actual columns without the extra tables and the extra columns
WithoutExtras ==
    [t \in DOMAIN actual_columns \cap DOMAIN expected_columns |->
        actual_columns[t] \cap expected_columns[t]]

\* C24: validate_schema returns as missing_tables the expected tables that are not
\* actual ones, as extra_tables the actual tables that are not expected, as
\* missing_columns exactly the (table, column) pairs of a table in both whose column
\* is expected and absent, each once; valid is true exactly when missing_tables and
\* missing_columns are empty, and is what it would be without the extra tables and
\* the extra columns.
C24_ValidateSchemaIsSetDifference ==
    cpc = "returned" =>
        LET r == schema_result
            pairs == {<<t, c>> \in SchemaTables \X Columns :
                        /\ t \in DOMAIN expected_columns /\ t \in DOMAIN actual_columns
                        /\ c \in expected_columns[t] /\ c \notin actual_columns[t]}
        IN /\ Range(r.missing_tables) = DOMAIN expected_columns \ DOMAIN actual_columns
           /\ Range(r.extra_tables) = DOMAIN actual_columns \ DOMAIN expected_columns
           /\ {<<d.table, d.column>> : d \in Range(r.missing_columns)} = pairs
           /\ Len(r.missing_columns) = Cardinality(pairs)
           /\ Len(r.missing_tables) = Cardinality(Range(r.missing_tables))
           /\ Len(r.extra_tables) = Cardinality(Range(r.extra_tables))
           /\ r.valid <=> (r.missing_tables = <<>> /\ r.missing_columns = <<>>)
           /\ r.valid = ValidateSchema(WithoutExtras, expected_columns).valid

\* C24 witness: table a has a column that is not expected and lacks the expected
\* one, table b is extra: one missing column, no missing table, not valid.
C24_Witness ==
    /\ cpc = "returned"
    /\ ~schema_result.valid
    /\ schema_result.missing_tables = <<>>
    /\ Len(schema_result.missing_columns) = 1
    /\ "a" \in DOMAIN actual_columns \cap DOMAIN expected_columns
    /\ actual_columns["a"] \ expected_columns["a"] # {}
    /\ schema_result.extra_tables = <<"b">>
    /\ schema_result.extra_tables = <<"b">>

(***************************************************************************)
(* compare_profiles and sync_data                                          *)
(***************************************************************************)
\* rows of the user in a table of the source database
MaxSyncRows == 2

SyncTables == {"t1", "t2"}
Slugs == {"s1", "s2"}

\* the user's rows of a source table, as their slugs: the i-th row has key i
SourceLists == RowLists(Slugs, MaxSyncRows)

\* the user's rows of a destination table before the call
DestLists == {<<>>, <<"s1">>, <<"s2">>, <<"s1", "s2">>}

\* the `tables` argument
TableLists == {<<"t1">>, <<"t2", "t1">>}

\* an empty dict
EmptyDict == [t \in {} |-> 0]

\* how the creation of the two adapters ends: both are created, or
\* _create_adapter_for_profile raises for the source, or for the destination
Openings == {"both", "source_fails", "dest_fails"}

\* how an adapter call ends
InsertOutcomes == {"ok", "ForeignKeyViolationError", "ValueError", "Exception"}
CallOutcomes == {"ok", "Exception"}

\* the totals over schema.tables of the summary restore_database returns
Summaries == [inserted : 0..1, updated : 0..1, skipped : 0..1]

\* source_adapter / dest_adapter after the attempt to create them
OpenResult(opened) ==
    [source |-> IF opened = "source_fails" THEN "none" ELSE "open",
     dest |-> IF opened = "both" THEN "open" ELSE "none"]

\* finally: if adapter is not None: await adapter.close()
AfterFinally(a) == [p \in DOMAIN a |-> IF a[p] = "open" THEN "closed" ELSE a[p]]

\* a variant that leaves the source adapter as it is
SourceLeftOpen(a) == a

\* except Exception as e: await source_adapter.close() -- the destination adapter
\* could not be created
SourceClosed(a) == [a EXCEPT !.source = "closed"]

\* SyncResult(source_profile=..., dest_profile=...)
NewSyncResult ==
    [success |-> FALSE, source_counts |-> EmptyDict, dest_counts |-> EmptyDict,
     sync_plan |-> EmptyDict, synced_count |-> 0, skipped_count |-> 0, errors |-> <<>>]

\* _get_slugs(...)[table]
SlugSet(rows, table) == Range(rows[table])

\* len(src - dst)
NewCount(src, dst) == Cardinality(src \ dst)

\* a variant that counts every destination slug as an update
UpdateCountOfDest(src, dst) == Cardinality(dst)

\* len(src & dst)
UpdateCount(src, dst) == Cardinality(src \cap dst)

\* what compare_profiles returns
CompareProfiles(fault) ==
    LET listed == Range(sync_args.tables)
    IN CASE fault = "source" ->
              [NewSyncResult EXCEPT
                 !.errors = <<"Failed to connect to source profile">>]
         [] fault = "dest" ->
              [NewSyncResult EXCEPT
                 !.errors = <<"Failed to connect to destination profile">>]
         [] fault = "select" ->
              [NewSyncResult EXCEPT !.errors = <<"Failed to compare profiles">>]
         [] OTHER ->
              [NewSyncResult EXCEPT
                 !.source_counts = [t \in listed |-> Len(source_rows[t])],
                 !.dest_counts = [t \in listed |-> Len(dest_rows[t])],
                 !.sync_plan = [t \in listed |->
                                  [new |-> NewCount(SlugSet(source_rows, t),
                                                    SlugSet(dest_rows, t)),
                                   update |-> UpdateCount(SlugSet(source_rows, t),
                                                          SlugSet(dest_rows, t))]],
                 !.success = TRUE]

\* result = await compare_profiles(...): the adapters are created, read and closed
Compare ==
    /\ ypc = "start"
    /\ \E fault \in {"none", "source", "dest", "select"} :
         /\ comparison' = CompareProfiles(fault)
         /\ sync_result' = CompareProfiles(fault)
         /\ adapters' = CASE fault = "source" -> OpenResult("source_fails")
                           [] fault = "dest" -> SourceClosed(OpenResult("dest_fails"))
                           [] OTHER -> AfterFinally(OpenResult("both"))
    /\ ypc' = "compared"
    /\ UNCHANGED <<source_rows, dest_rows, sync_args, sync_calls, tmpfile, sync_todo,
                   row_todo, dest_slugs, rvars, svars, fvars, gvars, bvars, zvars, kvars, cvars>>

\* a variant that takes every call as confirmed
ConfirmedAnyway == TRUE

\* confirm
Confirmed == sync_args.confirm

\* sync_data after the comparison: the three early returns, else one of the paths
SyncGate ==
    /\ ypc = "compared"
    /\ IF ~sync_result.success \/ sync_args.dry_run
         THEN /\ ypc' = "returned"
              /\ UNCHANGED sync_result
       ELSE IF ~Confirmed
         THEN /\ ypc' = "returned"
              /\ sync_result' = [sync_result EXCEPT
                   !.errors = Append(@, "Sync requires confirm=True"),
                   !.success = FALSE]
       ELSE /\ ypc' = IF sync_args.schema THEN "via_backup" ELSE "direct"
            /\ UNCHANGED sync_result
    /\ UNCHANGED <<source_rows, dest_rows, sync_args, comparison, sync_calls, adapters,
                   tmpfile, sync_todo, row_todo, dest_slugs, rvars, svars, fvars, gvars,
                   bvars, zvars, kvars, cvars>>

\* _sync_direct: the adapters are created; a failure is wrapped and returned
DirectOpen ==
    /\ ypc = "direct"
    /\ \E opened \in Openings :
         IF opened = "both"
           THEN /\ adapters' = OpenResult(opened)
                /\ sync_todo' = sync_args.tables
                /\ ypc' = "direct_tables"
                /\ UNCHANGED sync_result
           ELSE /\ adapters' = AfterFinally(OpenResult(opened))
                /\ sync_result' = [sync_result EXCEPT
                     !.success = FALSE, !.errors = Append(@, "Direct sync failed")]
                /\ ypc' = "returned"
                /\ UNCHANGED sync_todo
    /\ UNCHANGED <<source_rows, dest_rows, sync_args, comparison, sync_calls, tmpfile,
                   row_todo, dest_slugs, rvars, svars, fvars, gvars, bvars, zvars, kvars, cvars>>

\* how _sync_direct ends on an exception: a ValueError is re-raised, anything else is
\* wrapped into result.errors; the adapters are closed
DirectFail(exc) ==
    /\ adapters' = AfterFinally(adapters)
    /\ IF exc = "ValueError"
         THEN /\ sync_result' = [sync_result EXCEPT !.success = FALSE]
              /\ ypc' = "raised"
         ELSE /\ sync_result' = [sync_result EXCEPT
                   !.success = FALSE, !.errors = Append(@, "Direct sync failed")]
              /\ ypc' = "returned"

\* for table in tables: the source rows and the destination's slugs are read
DirectTable ==
    /\ ypc = "direct_tables" /\ sync_todo # <<>>
    /\ \E outcome \in {"ok", "ValueError", "Exception"} :
         LET table == Head(sync_todo)
         IN IF outcome = "ok"
              THEN /\ row_todo' = [i \in DOMAIN source_rows[table] |->
                                      [id |-> i, slug |-> source_rows[table][i]]]
                   /\ dest_slugs' = SlugSet(dest_rows, table)
                   /\ ypc' = "direct_rows"
                   /\ UNCHANGED <<sync_result, adapters>>
              ELSE /\ DirectFail(outcome)
                   /\ UNCHANGED <<row_todo, dest_slugs>>
    /\ UNCHANGED <<source_rows, dest_rows, sync_args, comparison, sync_calls, tmpfile,
                   sync_todo, rvars, svars, fvars, gvars, bvars, zvars, kvars, cvars>>

\* a variant that finds no slug in the destination
SlugNeverExists(row_slug, slugs) == FALSE

\* if row_slug in dest_slugs
SlugExists(row_slug, slugs) == row_slug \in slugs

\* the exception an insert failure leaves the row loop with: a ForeignKey... error
\* becomes ValueError, anything else goes on as it is
InsertRaises(outcome) ==
    IF outcome = "ForeignKeyViolationError" THEN "ValueError" ELSE outcome

\* for row in source_rows: skip it, or await dest_adapter.insert(table, data=row)
DirectRow ==
    /\ ypc = "direct_rows" /\ row_todo # <<>>
    /\ \E outcome \in InsertOutcomes :
         LET table == Head(sync_todo)
             row == Head(row_todo)
             call == [adapter |-> "dest", op |-> "insert", table |-> table,
                      row |-> row, outcome |-> outcome]
         IN IF SlugExists(row.slug, dest_slugs)
              THEN /\ sync_result' = [sync_result EXCEPT !.skipped_count = @ + 1]
                   /\ row_todo' = Tail(row_todo)
                   /\ UNCHANGED <<dest_rows, sync_calls, adapters, ypc>>
            ELSE IF outcome = "ok"
              THEN /\ sync_calls' = Append(sync_calls, call)
                   /\ dest_rows' = [dest_rows EXCEPT ![table] = Append(@, row.slug)]
                   /\ sync_result' = [sync_result EXCEPT !.synced_count = @ + 1]
                   /\ row_todo' = Tail(row_todo)
                   /\ UNCHANGED <<adapters, ypc>>
            ELSE /\ sync_calls' = Append(sync_calls, call)
                 /\ DirectFail(InsertRaises(outcome))
                 /\ UNCHANGED <<dest_rows, row_todo>>
    /\ UNCHANGED <<source_rows, sync_args, comparison, tmpfile, sync_todo, dest_slugs,
                   rvars, svars, fvars, gvars, bvars, zvars, kvars, cvars>>

\* the rows of a table are done: the next table
DirectNextTable ==
    /\ ypc = "direct_rows" /\ row_todo = <<>>
    /\ sync_todo' = Tail(sync_todo)
    /\ ypc' = "direct_tables"
    /\ UNCHANGED <<source_rows, dest_rows, sync_args, sync_result, comparison,
                   sync_calls, adapters, tmpfile, row_todo, dest_slugs, rvars, svars,
                   fvars, gvars, bvars, zvars, kvars, cvars>>

\* result.success = True; finally: the adapters are closed
DirectDone ==
    /\ ypc = "direct_tables" /\ sync_todo = <<>>
    /\ sync_result' = [sync_result EXCEPT !.success = TRUE]
    /\ adapters' = AfterFinally(adapters)
    /\ ypc' = "returned"
    /\ UNCHANGED <<source_rows, dest_rows, sync_args, comparison, sync_calls, tmpfile,
                   sync_todo, row_todo, dest_slugs, rvars, svars, fvars, gvars, bvars, zvars,
                   kvars, cvars>>

\* a variant that leaves the temporary file where it is
LeftBehind(file) == file

\* if backup_path is not None: Path(backup_path).unlink(missing_ok=True)
Unlinked(file) == IF file = "exists" THEN "deleted" ELSE file

\* how _sync_via_backup ends on an exception: it is wrapped into result.errors; the
\* adapters are closed and the temporary file is removed
ViaBackupFail ==
    /\ sync_result' = [sync_result EXCEPT
         !.success = FALSE, !.errors = Append(@, "Sync via backup/restore failed")]
    /\ adapters' = AfterFinally(adapters)
    /\ tmpfile' = Unlinked(tmpfile)
    /\ ypc' = "returned"

\* _sync_via_backup: the adapters are created, then the temporary file
ViaBackupOpen ==
    /\ ypc = "via_backup"
    /\ \E opened \in Openings :
         IF opened = "both"
           THEN /\ adapters' = OpenResult(opened)
                /\ tmpfile' = "exists"
                /\ ypc' = "backup"
                /\ UNCHANGED sync_result
           ELSE /\ sync_result' = [sync_result EXCEPT
                     !.success = FALSE,
                     !.errors = Append(@, "Sync via backup/restore failed")]
                /\ adapters' = AfterFinally(OpenResult(opened))
                /\ tmpfile' = Unlinked(tmpfile)
                /\ ypc' = "returned"
    /\ UNCHANGED <<source_rows, dest_rows, sync_args, comparison, sync_calls, sync_todo,
                   row_todo, dest_slugs, rvars, svars, fvars, gvars, bvars, zvars, kvars, cvars>>

\* await backup_database(source_adapter, schema, user_id=..., output_path=backup_path)
ViaBackupBackup ==
    /\ ypc = "backup"
    /\ \E outcome \in CallOutcomes :
         IF outcome = "ok"
           THEN /\ ypc' = "restore"
                /\ UNCHANGED <<sync_result, adapters, tmpfile>>
           ELSE ViaBackupFail
    /\ UNCHANGED <<source_rows, dest_rows, sync_args, comparison, sync_calls, sync_todo,
                   row_todo, dest_slugs, rvars, svars, fvars, gvars, bvars, zvars, kvars, cvars>>

\* summary = await restore_database(dest_adapter, schema, backup_path, ...,
\* mode="overwrite"); the counts are added up, the adapters closed, the file removed
ViaBackupRestore ==
    /\ ypc = "restore"
    /\ \E outcome \in CallOutcomes, totals \in Summaries :
         /\ sync_calls' = Append(sync_calls,
               [adapter |-> "dest", op |-> "restore_database", table |-> "all",
                row |-> <<>>, outcome |-> outcome])
         /\ IF outcome = "ok"
              THEN /\ sync_result' = [sync_result EXCEPT
                        !.synced_count = @ + totals.inserted + totals.updated,
                        !.skipped_count = @ + totals.skipped,
                        !.success = TRUE]
                   /\ adapters' = AfterFinally(adapters)
                   /\ tmpfile' = Unlinked(tmpfile)
                   /\ ypc' = "returned"
              ELSE ViaBackupFail
    /\ UNCHANGED <<source_rows, dest_rows, sync_args, comparison, sync_todo, row_todo,
                   dest_slugs, rvars, svars, fvars, gvars, bvars, zvars, kvars, cvars>>

InitSync ==
    /\ source_rows \in [SyncTables -> SourceLists]
    /\ dest_rows \in [SyncTables -> DestLists]
    /\ sync_args \in [tables : TableLists, schema : BOOLEAN, dry_run : BOOLEAN,
                      confirm : BOOLEAN]
    /\ ypc = "start"
    /\ sync_result = NewSyncResult
    /\ comparison = NewSyncResult
    /\ sync_calls = <<>>
    /\ adapters = [source |-> "none", dest |-> "none"]
    /\ tmpfile = "none"
    /\ sync_todo = <<>> /\ row_todo = <<>> /\ dest_slugs = {}
    /\ RestoreIdle /\ SortIdle /\ FixIdle /\ PlanIdle /\ ValidateIdle
    /\ ExportIdle /\ SchemaIdle
    /\ ToSqlIdle /\ ClientIdle

NextSync ==
    \/ Compare
    \/ SyncGate
    \/ DirectOpen
    \/ DirectTable
    \/ DirectRow
    \/ DirectNextTable
    \/ DirectDone
    \/ ViaBackupOpen
    \/ ViaBackupBackup
    \/ ViaBackupRestore

SpecSync == InitSync /\ [][NextSync]_vars

(***************************************************************************)
(* Claims about compare_profiles and sync_data (checked under SpecSync)    *)
(***************************************************************************)
\* C25: while dry_run is True or confirm is False, sync_data makes no call that
\* writes to a database and leaves both databases as they are; a dry run returns the
\* comparison and nothing else, and so does a call whose comparison failed; the
\* unconfirmed call that is not a dry run returns the comparison with success=False
\* and the error about confirm.
C25_NoWriteWhenDryOrUnconfirmed ==
    /\ []((sync_args.dry_run \/ ~sync_args.confirm) =>
            /\ sync_calls = <<>>
            /\ ypc \in {"start", "compared", "returned"}
            /\ ypc = "returned" =>
                 IF comparison.success /\ ~sync_args.dry_run
                   THEN /\ ~sync_result.success
                        /\ sync_result.errors = <<"Sync requires confirm=True">>
                        /\ [sync_result EXCEPT !.success = TRUE, !.errors = <<>>]
                             = comparison
                   ELSE sync_result = comparison)
    /\ [][(sync_args.dry_run \/ ~sync_args.confirm) =>
            UNCHANGED <<source_rows, dest_rows>>]_vars

\* C25 witness: a call with dry_run=False and confirm=False has returned; the
\* comparison had found a row to insert.
C25_Witness ==
    /\ ypc = "returned" /\ ~sync_args.dry_run /\ ~sync_args.confirm
    /\ comparison.success /\ ~sync_result.success
    /\ comparison.sync_plan["t1"].new > 0
    /\ sync_calls = <<>>

\* the destination's slugs of a table before sync_data inserted anything
DestBefore(t) ==
    LET added == {i \in DOMAIN sync_calls :
                    /\ sync_calls[i].op = "insert" /\ sync_calls[i].table = t
                    /\ sync_calls[i].outcome = "ok"}
    IN Range(SubSeq(dest_rows[t], 1, Len(dest_rows[t]) - Cardinality(added)))

\* the number of source rows over a list of tables
RECURSIVE SourceRowsOver(_)
SourceRowsOver(list) ==
    IF list = <<>> THEN 0
    ELSE Len(source_rows[Head(list)]) + SourceRowsOver(Tail(list))

\* C26: on the direct path every call that writes is an insert into the destination
\* of a source row of a listed table whose slug the destination did not have in that
\* table, no row is inserted twice and nothing is updated; when sync_data returns
\* success every such row has been inserted and synced_count + skipped_count is the
\* number of source rows of the listed tables.
C26_DirectPathInsertsExactlyTheNewRows ==
    ~sync_args.schema =>
        /\ \A i \in DOMAIN sync_calls :
             LET c == sync_calls[i]
             IN /\ c.op = "insert" /\ c.adapter = "dest"
                /\ c.table \in Range(sync_args.tables)
                /\ c.row.id \in DOMAIN source_rows[c.table]
                /\ c.row.slug = source_rows[c.table][c.row.id]
                /\ c.row.slug \notin DestBefore(c.table)
                /\ \A j \in 1..(i - 1) :
                     ~(sync_calls[j].table = c.table /\ sync_calls[j].row.id = c.row.id)
        /\ (ypc = "returned" /\ sync_result.success /\ ~sync_args.dry_run) =>
             /\ \A t \in Range(sync_args.tables) : \A k \in DOMAIN source_rows[t] :
                  source_rows[t][k] \notin DestBefore(t) =>
                      \E i \in DOMAIN sync_calls :
                          /\ sync_calls[i].table = t /\ sync_calls[i].row.id = k
                          /\ sync_calls[i].outcome = "ok"
             /\ sync_result.synced_count = Len(sync_calls)
             /\ sync_result.synced_count + sync_result.skipped_count
                  = SourceRowsOver(sync_args.tables)

\* C26 witness: a direct sync of two tables has returned success with two rows
\* inserted, both of the same new slug, and one row skipped.
C26_Witness ==
    /\ ypc = "returned" /\ sync_result.success /\ ~sync_args.schema
    /\ Len(sync_args.tables) = 2
    /\ sync_result.synced_count = 2 /\ sync_result.skipped_count = 1
    /\ Len(sync_calls) = 2
    /\ sync_calls[1].table = sync_calls[2].table
    /\ sync_calls[1].row.slug = sync_calls[2].row.slug

\* C27: on the backup/restore path sync_data always returns, and when it has
\* returned the temporary snapshot file does not exist.
C27_TemporarySnapshotIsRemoved ==
    sync_args.schema =>
        /\ ypc # "raised"
        /\ ypc = "returned" => tmpfile # "exists"

\* C27 witness: the backup succeeded, the restore raised, sync_data has returned
\* success=False and the file it had created is gone.
C27_Witness ==
    /\ ypc = "returned" /\ sync_args.schema /\ ~sync_result.success
    /\ tmpfile = "deleted"
    /\ sync_calls # <<>>
    /\ sync_calls[Len(sync_calls)].op = "restore_database"
    /\ sync_calls[Len(sync_calls)].outcome = "Exception"

\* C28: a comparison that succeeded reports for every listed table as new the number
\* of source slugs the destination does not have and as update the number it has,
\* the two adding up to the number of distinct source slugs; compare_profiles makes
\* no call that writes.
C28_ComparisonCountsNewAndUpdate ==
    /\ ypc \in {"start", "compared"} => sync_calls = <<>>
    /\ (ypc = "compared" /\ comparison.success) =>
         /\ DOMAIN comparison.sync_plan = Range(sync_args.tables)
         /\ \A t \in Range(sync_args.tables) :
              LET src == {source_rows[t][i] : i \in DOMAIN source_rows[t]}
                  dst == {dest_rows[t][i] : i \in DOMAIN dest_rows[t]}
                  entry == comparison.sync_plan[t]
              IN /\ entry.new = Cardinality({x \in src : x \notin dst})
                 /\ entry.update = Cardinality({x \in src : x \in dst})
                 /\ entry.new + entry.update = Cardinality(src)

\* C28 witness: of two listed tables one has a new and a known slug, the other two
\* source rows of one slug, which count once.
C28_Witness ==
    /\ ypc = "compared" /\ comparison.success
    /\ Len(sync_args.tables) = 2
    /\ comparison.sync_plan["t1"] = [new |-> 1, update |-> 1]
    /\ comparison.source_counts["t2"] = 2
    /\ comparison.sync_plan["t2"].new + comparison.sync_plan["t2"].update = 1

(***************************************************************************)
(* Claims about the summary of restore_database (SpecRestore)              *)
(***************************************************************************)
\* C31: for every table, inserted + updated + skipped + failed is the number of
\* snapshot rows of that table processed so far, and so, when restore_database
\* returns the summary, the number of rows of that table in the snapshot: each row
\* is counted in exactly one counter, in every mode, dry run or not.
C31_EveryRowIsCountedOnce ==
    \A t \in RestoreTables :
        /\ summary[t].inserted + summary[t].updated + summary[t].skipped
              + summary[t].failed = n[t]
        /\ last.table = t => last.outcome \in DOMAIN ZeroCounts /\ summary[t][last.outcome] > 0

\* C31 witness: restore_database has returned the summary of a snapshot of two
\* projects and a task: one project failed, the other was updated, the task skipped.
C31_Witness ==
    /\ rpc = "done"
    /\ summary.projects.failed = 1 /\ summary.projects.updated = 1
    /\ summary.tasks.skipped = 1
    /\ n = [projects |-> 2, milestones |-> 0, tasks |-> 1]

(***************************************************************************)
(* Claims about a failing backup in apply_fixes (SpecFix)                  *)
(***************************************************************************)
\* C33: with backup_fn supplied, a backup_fn call that fails is the last call
\* apply_fixes makes - the table it was for is never dropped, nor is any table after
\* it in the drop order - and every DROP comes right after the backup_fn call for
\* the same table, which returned a path.
C33_NoDropAfterFailedBackup ==
    args.backup_fn =>
        /\ \A i \in DOMAIN ddl : (ddl[i].op = "BACKUP" /\ ddl[i].outcome # "ok") =>
             /\ i = Len(ddl)
             /\ fpc \in {"raised", "returned"}
             /\ ~result.success
             /\ \A j \in DOMAIN ddl : ~(ddl[j].op = "DROP" /\ ddl[j].target = ddl[i].target)
        /\ \A j \in DOMAIN ddl : ddl[j].op = "DROP" =>
             /\ j > 1
             /\ ddl[j - 1].op = "BACKUP" /\ ddl[j - 1].target = ddl[j].target
             /\ ddl[j - 1].outcome = "ok" /\ ddl[j - 1].path \in Paths

\* C33 witness: of two tables to recreate the first was backed up and dropped, the
\* backup of the second failed, and apply_fixes has ended without dropping it.
C33_Witness ==
    /\ args.backup_fn /\ fpc = "returned" /\ ~result.success
    /\ Len(plan.tables_to_recreate) = 2
    /\ Len(ddl) >= 3
    /\ ddl[Len(ddl)].op = "BACKUP" /\ ddl[Len(ddl)].outcome = "Exception"
    /\ ddl[Len(ddl) - 1].op = "DROP" /\ ddl[Len(ddl) - 1].outcome = "ok"
    /\ ddl[Len(ddl) - 2].op = "BACKUP"

(***************************************************************************)
(* Claims about the orders of a generated plan (checked under SpecPlan)    *)
(***************************************************************************)
\* C37: in every plan that generate_fix_plan returns without an error, create_order
\* has no table twice and holds exactly the tables of missing_tables and of
\* tables_to_recreate, and drop_order is create_order reversed.
C37_OrdersCoverExactlyTheAffectedTables ==
    (gpc = "returned" /\ fixplan.error = NoneStr) =>
        /\ \A i, j \in DOMAIN create_order : create_order[i] = create_order[j] => i = j
        /\ Range(create_order) =
             Range(TablesOf(fixplan.missing_tables))
               \cup Range(TablesOf(fixplan.tables_to_recreate))
        /\ drop_order = Reversed(create_order)

\* C37 witness: a plan with a missing table and a table to recreate was returned
\* without error, its two orders filled in.
C37_Witness ==
    /\ gpc = "returned" /\ fixplan.error = NoneStr
    /\ fixplan.missing_tables # <<>> /\ fixplan.tables_to_recreate # <<>>
    /\ Len(create_order) >= 2
    /\ drop_order = Reversed(create_order)

(***************************************************************************)
(* ColumnFix.to_sql (fix.py 46-80).  A definition is the list of its words, *)
(* as separated by single spaces: the column type and then its clauses.    *)
(***************************************************************************)
\* clauses after the column type in a definition
MaxClauses == 3

\* the clauses a column definition is made of
ClauseWords ==
    {<<"NOT", "NULL">>, <<"PRIMARY", "KEY">>, <<"REFERENCES", "p(id)">>,
     <<"DEFAULT", "0">>}

RECURSIVE Flatten(_)
Flatten(seqs) == IF seqs = <<>> THEN <<>> ELSE Head(seqs) \o Flatten(Tail(seqs))

\* ColumnFix(table, column, definition)
ColumnFixInputs ==
    [table : FixTables, column : Columns,
     definition : {<<"INT">> \o Flatten(l) : l \in ListsWithin(ClauseWords, MaxClauses)}]

\* "REFERENCES" in definition
Contains(words, w) == \E i \in DOMAIN words : words[i] = w

\* "PRIMARY KEY" in definition
ContainsPhrase(words, a, b) ==
    \E i \in 1..(Len(words) - 1) : words[i] = a /\ words[i + 1] = b

\* definition.replace(" A B", ""), from word i on: every occurrence that follows a
\* space is cut out, left to right
RECURSIVE Replace(_, _, _, _)
Replace(words, a, b, i) ==
    IF i > Len(words) THEN <<>>
    ELSE IF i >= 2 /\ i < Len(words) /\ words[i] = a /\ words[i + 1] = b
      THEN Replace(words, a, b, i + 2)
    ELSE <<words[i]>> \o Replace(words, a, b, i + 1)

\* NOT NULL is cut out of every definition
NotNullNeverKept(definition) == FALSE

\* if "REFERENCES" in definition: pass
NotNullKept(definition) == Contains(definition, "REFERENCES")

\* ColumnFix.to_sql
ToSql(fix) ==
    LET without_not_null ==
            IF NotNullKept(fix.definition) THEN fix.definition
            ELSE Replace(fix.definition, "NOT", "NULL", 1)
        definition ==
            IF ContainsPhrase(without_not_null, "PRIMARY", "KEY")
              THEN Replace(without_not_null, "PRIMARY", "KEY", 1)
              ELSE without_not_null
    IN <<"ALTER", "TABLE", fix.table, "ADD", "COLUMN", fix.column>> \o definition
         \o <<";">>

\* fix.to_sql()
CallToSql ==
    /\ tpc = "start"
    /\ statement' = ToSql(column_fix)
    /\ tpc' = "returned"
    /\ UNCHANGED <<column_fix, rvars, svars, fvars, gvars, bvars, kvars, cvars, yvars,
                   uvars>>

InitToSql ==
    /\ column_fix \in ColumnFixInputs
    /\ tpc = "start"
    /\ statement = <<>>
    /\ RestoreIdle /\ SortIdle /\ FixIdle /\ PlanIdle /\ ValidateIdle
    /\ ExportIdle /\ SchemaIdle /\ SyncIdle /\ ClientIdle

NextToSql == CallToSql

SpecToSql == InitToSql /\ [][NextToSql]_vars

(***************************************************************************)
(* Claims about ColumnFix.to_sql (checked under SpecToSql)                 *)
(***************************************************************************)
\* the statement is ALTER TABLE <table> ADD COLUMN <column> <type> ... ;
IsAddColumn ==
    /\ Len(statement) >= 8
    /\ SubSeq(statement, 1, 7) =
         <<"ALTER", "TABLE", column_fix.table, "ADD", "COLUMN", column_fix.column,
           column_fix.definition[1]>>
    /\ statement[Len(statement)] = ";"

\* the words of a list other than those of W, in order
Besides(words, W) == SelectSeq(words, LAMBDA w : w \notin W)

MaxCoroutines == 3

Coroutines == 1..MaxCoroutines

\* how acreate_client ends
CreateOutcomes == {"ok", "raises"}

\* the check is left out after the lock was acquired
AssumedNone == TRUE

\* if self._client is None (the double check, holding the lock)
StillNone == client = {}

\* if self._client is None: ... else: return self._client
GetClient(c) ==
    /\ upc[c] = "start"
    /\ IF client = {}
         THEN /\ upc' = [upc EXCEPT ![c] = "wait"]
              /\ UNCHANGED got
         ELSE /\ upc' = [upc EXCEPT ![c] = "done"]
              /\ got' = [got EXCEPT ![c] = client]
    /\ UNCHANGED <<client, lock, made, rvars, svars, fvars, gvars, bvars, kvars, cvars,
                   yvars, tvars>>

\* async with self._lock: the lock is taken when it is free
AcquireLock(c) ==
    /\ upc[c] = "wait"
    /\ lock = {}
    /\ lock' = {c}
    /\ upc' = [upc EXCEPT ![c] = "locked"]
    /\ UNCHANGED <<client, got, made, rvars, svars, fvars, gvars, bvars, kvars, cvars,
                   yvars, tvars>>

\* the double check: acreate_client is called, or the lock is released and
\* self._client returned
DoubleCheck(c) ==
    /\ upc[c] = "locked"
    /\ IF StillNone
         THEN /\ upc' = [upc EXCEPT ![c] = "creating"]
              /\ UNCHANGED <<lock, got>>
         ELSE /\ upc' = [upc EXCEPT ![c] = "done"]
              /\ lock' = {}
              /\ got' = [got EXCEPT ![c] = client]
    /\ UNCHANGED <<client, made, rvars, svars, fvars, gvars, bvars, kvars, cvars,
                   yvars, tvars>>

\* self._client = await acreate_client(...); the lock is released; return
\* self._client -- or acreate_client raises, and the lock is released on the way out
CreateClient(c) ==
    /\ upc[c] = "creating"
    /\ \E outcome \in CreateOutcomes :
         IF outcome = "ok"
           THEN /\ made' = Append(made, {Len(made) + 1})
                /\ client' = {Len(made) + 1}
                /\ got' = [got EXCEPT ![c] = {Len(made) + 1}]
                /\ upc' = [upc EXCEPT ![c] = "done"]
           ELSE /\ upc' = [upc EXCEPT ![c] = "raised"]
                /\ UNCHANGED <<made, client, got>>
    /\ lock' = {}
    /\ UNCHANGED <<rvars, svars, fvars, gvars, bvars, kvars, cvars, yvars, tvars>>

InitClient ==
    /\ client = {}
    /\ lock = {}
    /\ upc = [c \in Coroutines |-> "start"]
    /\ got = [c \in Coroutines |-> {}]
    /\ made = <<>>
    /\ RestoreIdle /\ SortIdle /\ FixIdle /\ PlanIdle /\ ValidateIdle
    /\ ExportIdle /\ SchemaIdle /\ SyncIdle /\ ToSqlIdle

NextClient ==
    \E c \in Coroutines :
        \/ GetClient(c)
        \/ AcquireLock(c)
        \/ DoubleCheck(c)
        \/ CreateClient(c)

SpecClient == InitClient /\ [][NextClient]_vars

(***************************************************************************)
(* Claims about _get_client (checked under SpecClient)                     *)
(***************************************************************************)
\* C36: when several coroutines call _get_client before the client exists,
\* acreate_client returns a client at most once, at most one coroutine is creating
\* at a time, and every coroutine to which _get_client returned has received that
\* one client, which is self._client.
C36_ClientIsCreatedOnce ==
    /\ Len(made) <= 1
    /\ Cardinality({c \in Coroutines : upc[c] = "creating"}) <= 1
    /\ \A c \in Coroutines :
         upc[c] = "done" => /\ made = <<got[c]>>
                            /\ client = got[c]
                            /\ got[c] # {}

\* C36 witness: a coroutine has created the client and returned while another, which
\* had found no client, is still waiting for the lock and a third holds it.
C36_Witness ==
    \E a, b, c \in Coroutines :
        /\ upc[a] = "done" /\ made = <<got[a]>>
        /\ upc[b] = "wait"
        /\ upc[c] = "locked" /\ lock = {c}

(***************************************************************************)
(* More claims about validate_backup (checked under SpecValidate)          *)
(***************************************************************************)
\* the primary keys of the snapshot's projects
SnapshotProjectIds ==
    {backup_data.projects[i].id : i \in DOMAIN backup_data.projects} \ {Absent, None}

\* the tasks whose project_id is present and is no primary key of a snapshot project
OrphanedTasks ==
    {i \in DOMAIN backup_data.tasks :
        /\ backup_data.tasks[i].project_id # Absent
        /\ backup_data.tasks[i].project_id \notin SnapshotProjectIds}

\* the same for the milestones
OrphanedMilestones ==
    {i \in DOMAIN backup_data.milestones :
        backup_data.milestones[i].project_id \notin SnapshotProjectIds}

\* a snapshot without a defect other than orphaned child rows
SoundButForOrphans ==
    /\ backup_data.file = "ok"
    /\ TopLevelKeys \subseteq backup_data.keys
    /\ backup_data.version = ExpectedVersion
    /\ \A i \in DOMAIN backup_data.projects :
         /\ backup_data.projects[i].id \notin {Absent, None}
         /\ backup_data.projects[i].slug # Absent
    /\ \A i \in DOMAIN backup_data.tasks : backup_data.tasks[i].project_id # Absent

C39_EveryMissingTableKeyIsAnError ==
    (validation # <<>> /\ backup_data.file = "ok") =>
        /\ \A t \in RestoreTables :
             t \notin backup_data.keys =>
                 /\ ~validation.valid
                 /\ <<"Missing required key", t>> \in validation.errors
        /\ validation.valid <=> validation.errors = {}

(***************************************************************************)
(* Claims about the adapters of compare_profiles and sync_data (SpecSync)  *)
(***************************************************************************)
\* compare_profiles, _sync_direct or _sync_via_backup has returned or raised
BetweenCalls == ypc \in {"compared", "returned", "raised"}

\* C35: when compare_profiles or a path of sync_data has returned or raised, none of
\* the adapters it created is open: after a success and after a failed select or
\* write both are closed, and when the destination adapter could not be created the
\* source adapter, which had been created, is closed.
C35_NoAdapterLeftOpen ==
    BetweenCalls =>
        /\ \A p \in DOMAIN adapters : adapters[p] \in {"none", "closed"}
        /\ (ypc = "compared"
              /\ comparison.errors = <<"Failed to connect to destination profile">>)
             => adapters = [source |-> "closed", dest |-> "none"]
        /\ (ypc = "compared" /\ comparison.success)
             => adapters = [source |-> "closed", dest |-> "closed"]
        /\ sync_calls # <<>> => adapters = [source |-> "closed", dest |-> "closed"]

\* C35 witness: compare_profiles created the source adapter, failed to create the
\* destination adapter and has returned; the source adapter is closed.
C35_Witness ==
    /\ ypc = "compared"
    /\ comparison.errors = <<"Failed to connect to destination profile">>
    /\ adapters.source = "closed" /\ adapters.dest = "none"

Affected == Range(plan.missing_tables) \cup Range(plan.tables_to_recreate)

\* the tables reached from t along one or more references
ReachedFrom(t) ==
    LET one == fk_deps[t]
        two == one \cup UNION {fk_deps[u] : u \in one}
    IN two \cup UNION {fk_deps[u] : u \in two}

\* no table references itself, directly or through others
AcyclicDeps == \A t \in FixTables : t \notin ReachedFrom(t)

\* the positions in the DDL sequence at which the table was created
CreatesOf(t) ==
    {i \in DOMAIN ddl : ddl[i].op = "CREATE" /\ ddl[i].target = t /\ ddl[i].outcome = "ok"}

\* C32: when apply_fixes has completed the plan that generate_fix_plan returned over
\* an acyclic FK graph, every affected table was created for the last time after the
\* last creation of each affected table it references - also a missing table that
\* references a table the same run drops and recreates.
C32_ParentsAreCreatedBeforeChildren ==
    (gpc = "returned" /\ fpc = "returned" /\ result.success /\ ~args.dry_run
       /\ AcyclicDeps) =>
        \A t \in Affected, u \in Affected :
            u \in fk_deps[t] =>
                \A j \in CreatesOf(u) : \E i \in CreatesOf(t) : i > j

====
